---- MODULE Spec2Model ----
(***************************************************************************)
(* Model of the predictive analytics engine of TallyInsightsPro            *)
(* (src/src/analytics.py): AdvancedAnalytics.sales_forecasting,            *)
(* customer_segmentation, product_trend_analysis,                          *)
(* seasonal_pattern_analysis and calculate_kpis.                           *)
(*                                                                         *)
(* A DataFrame is [columns |-> set of column names, rows |-> sequence of   *)
(* rows], a row being a function from the column names to values.  A raw   *)
(* date is the string Tally sends ("20240131"), modelled by its digits as  *)
(* the number 20240131; a Timestamp is the number of days since            *)
(* 1970-01-01.  Amounts are integers.                                      *)
(***************************************************************************)
EXTENDS Integers, Sequences, FiniteSets, TLC

\* ------------------------------------------------------------------ bounds
MaxLen == 8
MaxParties == 5
MaxItems == 3
MaxHorizon == 2
MaxSnapshot == 2

\* ---------------------------------------------------------------- helpers
Range(s) == {s[i] : i \in DOMAIN s}

Min2(a, b) == IF a <= b THEN a ELSE b

\* f itself, tabulated once (a function constructor is otherwise re-evaluated
\* at every application)
Tab(f) == f @@ [k \in {} |-> 0]

RECURSIVE SumSeq(_)
SumSeq(s) == IF s = <<>> THEN 0 ELSE Head(s) + SumSeq(Tail(s))

SetMax(S) == CHOOSE x \in S : \A y \in S : y <= x

SetMin(S) == CHOOSE x \in S : \A y \in S : x <= y

\* the elements of a set of integers in ascending order
RECURSIVE SortedSeq(_)
SortedSeq(S) == IF S = {} THEN <<>> ELSE <<SetMin(S)>> \o SortedSeq(S \ {SetMin(S)})

\* largest r with r*r <= n
RECURSIVE ISqrtFrom(_, _, _)
ISqrtFrom(n, lo, hi) ==
    IF lo >= hi THEN lo
    ELSE LET mid == (lo + hi + 1) \div 2
         IN IF mid * mid <= n THEN ISqrtFrom(n, mid, hi) ELSE ISqrtFrom(n, lo, mid - 1)

ISqrt(n) == IF n <= 0 THEN 0 ELSE ISqrtFrom(n, 0, Min2(n, 46340))

\* --------------------------------------------------------------- calendar
\* days since 1970-01-01 of the civil date y-m-d (proleptic Gregorian)
DaysFromCivil(y, m, d) ==
    LET yy  == IF m <= 2 THEN y - 1 ELSE y
        era == yy \div 400
        yoe == yy - era * 400
        mp  == (m + 9) % 12
        doy == (153 * mp + 2) \div 5 + d - 1
        doe == yoe * 365 + yoe \div 4 - yoe \div 100 + doy
    IN era * 146097 + doe - 719468

\* the civil date [year, month, day] of a day number
CivilFromDays(z) ==
    LET zz  == z + 719468
        era == zz \div 146097
        doe == zz - era * 146097
        yoe == (doe - doe \div 1460 + doe \div 36524 - doe \div 146096) \div 365
        doy == doe - (365 * yoe + yoe \div 4 - yoe \div 100)
        mp  == (5 * doy + 2) \div 153
        d   == doy - (153 * mp + 2) \div 5 + 1
        m   == IF mp < 10 THEN mp + 3 ELSE mp - 9
        y   == yoe + era * 400 + (IF m <= 2 THEN 1 ELSE 0)
    IN [year |-> y, month |-> m, day |-> d]

\* the raw date string of a day number, as the accounting system sends it
DateString(z) ==
    LET c == CivilFromDays(z)
    IN [kind |-> "str", v |-> c.year * 10000 + c.month * 100 + c.day]

Timestamp(z) == [kind |-> "ts", v |-> z]

\* pd.to_datetime on one value: parses a string, leaves a Timestamp alone
to_datetime(x) ==
    IF x.kind = "ts" THEN x
    ELSE Timestamp(DaysFromCivil(x.v \div 10000, (x.v \div 100) % 100, x.v % 100))

\* Timestamp.month, .quarter, .dayofweek (Monday = 0)
month(t) == CivilFromDays(t.v).month

quarter(t) == (month(t) - 1) \div 3 + 1

dayofweek(t) == (t.v + 3) % 7

\* Timestamp.isocalendar().week
IsLeap(y) == (y % 4 = 0 /\ y % 100 # 0) \/ y % 400 = 0

IsoWeeksInYear(y) ==
    LET jan1 == (DaysFromCivil(y, 1, 1) + 3) % 7
    IN IF jan1 = 3 \/ (jan1 = 2 /\ IsLeap(y)) THEN 53 ELSE 52

week_of_year(t) ==
    LET y   == CivilFromDays(t.v).year
        doy == t.v - DaysFromCivil(y, 1, 1) + 1
        w   == (doy - (dayofweek(t) + 1) + 10) \div 7
    IN IF w < 1 THEN IsoWeeksInYear(y - 1)
       ELSE IF w > IsoWeeksInYear(y) THEN 1
       ELSE w

\* ------------------------------------------------------------- DataFrames
EmptyFrame == [columns |-> {}, rows |-> <<>>]

\* DataFrame.empty
empty(df) == df.columns = {} \/ Len(df.rows) = 0

\* df[col].values
Column(df, col) == Tab([i \in 1..Len(df.rows) |-> df.rows[i][col]])

\* df[col] = f(row): adds or replaces one column, in place
Assign(df, col, F(_)) ==
    [columns |-> df.columns \cup {col},
     rows    |-> Tab([i \in 1..Len(df.rows) |->
                    Tab([c \in df.columns \cup {col} |->
                        IF c = col THEN F(df.rows[i]) ELSE df.rows[i][c]])])]

\* the sum of column col over the rows whose key column has value k
RECURSIVE SumWhere(_, _, _, _)
SumWhere(rows, key, k, col) ==
    IF rows = <<>> THEN 0
    ELSE (IF Head(rows)[key] = k THEN Head(rows)[col] ELSE 0)
         + SumWhere(Tail(rows), key, k, col)

\* the aggregation taking the first amount of each group instead of the sum
GroupFirst(df, key, col) ==
    LET keys == SortedSeq({df.rows[i][key] : i \in 1..Len(df.rows)})
    IN Tab([j \in 1..Len(keys) |->
          [k |-> keys[j],
           amount |-> df.rows[SetMin({i \in 1..Len(df.rows) : df.rows[i][key] = keys[j]})][col]]])

\* groupby(key)[col].sum().reset_index(): one row per distinct key, ascending
GroupSum(df, key, col) ==
    LET keys == SortedSeq({df.rows[i][key] : i \in 1..Len(df.rows)})
    IN Tab([j \in 1..Len(keys) |->
          [k |-> keys[j], amount |-> SumWhere(df.rows, key, keys[j], col)]])

\* the last position holding the maximum
idxmaxLast(s) ==
    LET m == SetMax({s[i].amount : i \in 1..Len(s)})
    IN SetMax({i \in 1..Len(s) : s[i].amount = m})

\* Series.idxmax(): the first position holding the maximum
idxmax(s) ==
    LET m == SetMax({s[i].amount : i \in 1..Len(s)})
    IN SetMin({i \in 1..Len(s) : s[i].amount = m})

\* the value of sales_data['date'] = pd.to_datetime(sales_data['date']) in a row
ToDatetimeDate(r) == to_datetime(r["date"])

\* the values of the calendar columns in a row whose date is a Timestamp
MonthOfRow(r) == month(r["date"])

QuarterOfRow(r) == quarter(r["date"])

DayOfWeekOfRow(r) == dayofweek(r["date"])

WeekOfYearOfRow(r) == week_of_year(r["date"])

\* ----------------------------------------------------------------- inputs
FullColumns == {"date", "voucher_number", "party_name", "amount", "stock_item"}

\* the column sets a caller supplies: all columns, or one column missing
ColumnSets == {FullColumns} \cup {FullColumns \ {c} : c \in FullColumns}

DatePatterns == {"desc", "dup", "mix"}

\* a shape fixes the amounts and the number of counterparties of a batch
Shapes == {"saw", "flat"}

\* the day number of row i under a date pattern: descending days with gaps
\* of a month; repeated days; unordered days across a year end, the eighth
\* record on the day of an earlier one
DayOf(dp, i) ==
    CASE dp = "desc" -> DaysFromCivil(2024, 1, 31) + 29 * (MaxLen + 1 - i)
      [] dp = "dup"  -> DaysFromCivil(2024, 6, 28) + (i \div 2)
      [] dp = "mix"  -> DaysFromCivil(2023, 12, 27) + ((5 * i) % 9) - (i \div 8)

AmountOf(shape, i) ==
    CASE shape = "flat" -> 5
      [] shape = "saw"  -> ((3 * i) % 7) - 1

PartiesOf(shape) ==
    CASE shape = "flat" -> 2
      [] shape = "saw"  -> MaxParties

\* a batch of n transaction records (src/src/tally_api.py:113-119 shape)
MakeFrame(n, cols, dp, shape) ==
    IF n = 0 THEN EmptyFrame
    ELSE [columns |-> cols,
          rows |-> Tab([i \in 1..n |->
             Tab([c \in cols |->
                CASE c = "date"           -> DateString(DayOf(dp, i))
                  [] c = "voucher_number" -> 100 + ((i \div 2) % 3)
                  [] c = "party_name"     -> i % PartiesOf(shape)
                  [] c = "amount"         -> AmountOf(shape, i)
                  [] c = "stock_item"     -> (i \div 2) % Min2(PartiesOf(shape), MaxItems)])])]

\* batches with every column, of every size and pattern; batches lacking one
\* column, in two sizes
SalesFrames ==
    {MakeFrame(n, FullColumns, dp, shape) :
        n \in 0..MaxLen, dp \in DatePatterns, shape \in Shapes}
    \cup
    {MakeFrame(n, cols, "mix", "saw") : n \in {1, MaxLen}, cols \in ColumnSets}

\* ------------------------------------------------------------------ state
VARIABLES
    sales_data,     \* the caller's batch (a DataFrame the engine is handed)
    sales_data0,    \* the batch as the caller built it
    called,         \* the latest call: operation name and parameters
    result,         \* the dict the latest call returned
    raised,         \* TRUE when the latest call let an exception escape
    scaler,         \* self.scaler: the fitted StandardScaler of the engine
    threads,        \* the invocations running concurrently on the engine,
                    \* each with its own batch and locals; <<>> when the
                    \* engine is called from one thread only
    sklearn,        \* what is assumed of a scikit-learn fit: "any" outcome,
                    \* or the one a given random_state determines ("seeded")
    session_state,  \* st.session_state: the dict a browser session keeps
                    \* from one script run to the next
    page,           \* the latest render of a page: the view, its widget
                    \* values, whether it called the engine, the keys it
                    \* read from the result
    alert_rules,    \* self.alert_rules of the AlertManager of the latest
                    \* handler, as the handler left them
    now             \* datetime.now(), in whole seconds

vars == <<sales_data, sales_data0, called, result, raised, scaler, threads, sklearn,
          session_state, page, alert_rules, now>>

\* what the engine never touches
app == <<session_state, page, alert_rules, now>>

NoDict == [k \in {} |-> 0]

Error(msg) == [error |-> msg]

Init ==
    /\ sales_data \in SalesFrames
    /\ sales_data0 = sales_data
    /\ called = [op |-> "none"]
    /\ result = NoDict
    /\ raised = FALSE
    /\ scaler = [mean_ |-> <<>>, scale_ |-> <<>>]
    /\ threads = <<>>
    /\ sklearn = "any"
    /\ session_state = NoDict
    /\ page = [view |-> "none"]
    /\ alert_rules = NoDict
    /\ now = 0

\* ------------------------------------------------------------ random_state
\* An optional seed is the set of at most one integer: {} is None.
\* the estimators built with no seed
random_stateNone == {}

\* lines 48 and 112: random_state=42
random_state == {42}

\* what a fit with a given random_state returns, of the candidate outcomes:
\* a seed starts a pseudo-random stream of its own, so the outcome is one
\* fixed candidate; without a seed, or when nothing is assumed of the
\* library, it is any candidate
Fit(seed, candidates) ==
    IF sklearn = "seeded" /\ seed # {}
    THEN {CHOOSE c \in candidates : TRUE}
    ELSE candidates

\* -------------------------------------------------------- sales_forecasting
MinHistory == 7

\* the aggregation keyed by record instead of by calendar date: one row per
\* record, in date order
DailySalesPerRecord(df) ==
    LET keys == SortedSeq({100 * df.rows[i]["date"].v + i : i \in 1..Len(df.rows)})
    IN Tab([j \in 1..Len(keys) |->
          [date |-> Timestamp(keys[j] \div 100),
           amount |-> df.rows[keys[j] % 100]["amount"]]])

\* the aggregation without the sort: one row per distinct calendar date, in
\* the order the dates first appear in the batch
DailySalesUnsorted(df) ==
    LET n == Len(df.rows)
        firsts == {i \in 1..n : \A i2 \in 1..(i - 1) :
                                    df.rows[i2]["date"] # df.rows[i]["date"]}
        order == SortedSeq(firsts)
    IN Tab([j \in 1..Len(order) |->
          [date |-> df.rows[order[j]]["date"],
           amount |-> SumWhere(df.rows, "date", df.rows[order[j]]["date"], "amount")]])

\* sales_data.groupby(sales_data['date'].dt.date)['amount'].sum(), as
\* Timestamps again and sorted by date: one row per distinct calendar date
DailySales(df) ==
    LET days == SortedSeq({df.rows[i]["date"].v : i \in 1..Len(df.rows)})
    IN Tab([j \in 1..Len(days) |->
          [date |-> Timestamp(days[j]),
           amount |-> SumWhere(df.rows, "date", Timestamp(days[j]), "amount")]])

\* a feature vector that takes only Sunday for the weekend
FeaturesSundayOnly(date, first) ==
    [day_num |-> date.v - first.v,
     day_of_week |-> dayofweek(date),
     month |-> month(date),
     is_weekend |-> IF dayofweek(date) = 6 THEN 1 ELSE 0]

\* the feature vector of a date, day_num counted from the earliest date
Features(date, first) ==
    [day_num |-> date.v - first.v,
     day_of_week |-> dayofweek(date),
     month |-> month(date),
     is_weekend |-> IF dayofweek(date) \in {5, 6} THEN 1 ELSE 0]

\* daily_sales with the four feature columns of lines 37-40
WithFeatures(daily) ==
    Tab([j \in 1..Len(daily) |->
        LET f == Features(daily[j].date, daily[1].date)
        IN [date |-> daily[j].date, amount |-> daily[j].amount,
            day_num |-> f.day_num, day_of_week |-> f.day_of_week,
            month |-> f.month, is_weekend |-> f.is_weekend]])

\* RandomForestRegressor(n_estimators=100, random_state=42).fit(X, y): every
\* prediction of a forest is an average of training targets.  The fitted
\* forest is one of three such predictors, values in hundredths:
\*   "memorize"  the target of the training day nearest in day_num,
\*   "mean"      the mean of all targets,
\*   "weekday"   the mean of the targets of the same weekday, else the mean.
Estimators == {"memorize", "mean", "weekday"}

Abs(x) == IF x < 0 THEN -x ELSE x

RECURSIVE SumAmounts(_, _)
SumAmounts(daily, J) ==
    IF J = {} THEN 0
    ELSE LET j == SetMin(J) IN daily[j].amount + SumAmounts(daily, J \ {j})

MeanOf(daily, J) == (100 * SumAmounts(daily, J)) \div Cardinality(J)

Predict(est, daily, x) ==
    LET all == 1..Len(daily)
    IN CASE est = "mean" -> MeanOf(daily, all)
         [] est = "memorize" ->
              LET best == SetMin({Abs(daily[j].day_num - x.day_num) : j \in all})
                  j0 == SetMin({j \in all : Abs(daily[j].day_num - x.day_num) = best})
              IN 100 * daily[j0].amount
         [] est = "weekday" ->
              LET same == {j \in all : daily[j].day_of_week = x.day_of_week}
              IN IF same = {} THEN MeanOf(daily, all) ELSE MeanOf(daily, same)

\* np.std(residuals), population standard deviation, in hundredths
StdDev(r) ==
    LET n == Len(r)
        s1 == SumSeq(r)
        s2 == SumSeq(Tab([i \in 1..n |-> r[i] * r[i]]))
    IN ISqrt(n * s2 - s1 * s1) \div n

\* model.score(X, y): the in-sample R^2, in thousandths
Score(y, pred) ==
    LET n == Len(y)
        res == SumSeq(Tab([i \in 1..n |-> (y[i] - pred[i]) * (y[i] - pred[i])]))
        s1 == SumSeq(y)
        tot == n * SumSeq(Tab([i \in 1..n |-> y[i] * y[i]])) - s1 * s1
    IN IF tot = 0 THEN (IF res = 0 THEN 1000 ELSE 0)
       ELSE 1000 - (n * res) \div (tot \div 1000)

\* the forecast days counted from last_date itself: range(0, forecast_days)
ForecastDatesFromLast(last_date, forecast_days) ==
    Tab([i \in 1..forecast_days |-> Timestamp(last_date.v + i - 1)])

\* line 53: the forecast_days days after last_date
ForecastDates(last_date, forecast_days) ==
    Tab([i \in 1..forecast_days |-> Timestamp(last_date.v + i)])

\* the upper bound with the sign of the band flipped
ConfidenceUpperFlipped(forecast_values, band) ==
    Tab([i \in 1..Len(forecast_values) |-> forecast_values[i] - band])

\* lines 68-69: the band around the point forecasts
ConfidenceUpper(forecast_values, band) ==
    Tab([i \in 1..Len(forecast_values) |-> forecast_values[i] + band])

\* the lower bound with a band that widens with the forecast day
ConfidenceLowerWidening(forecast_values, band) ==
    Tab([i \in 1..Len(forecast_values) |-> forecast_values[i] - i * band])

ConfidenceLower(forecast_values, band) ==
    Tab([i \in 1..Len(forecast_values) |-> forecast_values[i] - band])

\* lines 36-78: the forecast payload
ForecastResult(daily0, forecast_days, est) ==
    LET daily_sales == WithFeatures(daily0)
        n == Len(daily_sales)
        y == Tab([j \in 1..n |-> 100 * daily_sales[j].amount])
        last_date == daily_sales[n].date
        forecast_dates == ForecastDates(last_date, forecast_days)
        forecast_features ==
            Tab([i \in 1..forecast_days |-> Features(forecast_dates[i], daily_sales[1].date)])
        forecast_values ==
            Tab([i \in 1..forecast_days |-> Predict(est, daily_sales, forecast_features[i])])
        fitted == Tab([j \in 1..n |-> Predict(est, daily_sales, daily_sales[j])])
        residuals == Tab([j \in 1..n |-> y[j] - fitted[j]])
        std_residual == StdDev(residuals)
        band == (196 * std_residual) \div 100
    IN [forecast_dates |-> forecast_dates,
        forecast_values |-> forecast_values,
        confidence_upper |-> ConfidenceUpper(forecast_values, band),
        confidence_lower |-> ConfidenceLower(forecast_values, band),
        historical_data |-> daily_sales,
        model_accuracy |-> Score(y, fitted)]

sales_forecasting(forecast_days) ==
    LET converted == Assign(sales_data, "date", ToDatetimeDate)
        daily_sales == DailySales(converted)
    IN /\ called' = [op |-> "sales_forecasting", forecast_days |-> forecast_days]
       /\ raised' = FALSE
       /\ UNCHANGED <<sales_data0, scaler, threads, sklearn>>
       /\ IF empty(sales_data) \/ "date" \notin sales_data.columns
          THEN /\ result' = Error("Insufficient data for forecasting")
               /\ UNCHANGED sales_data
          ELSE /\ sales_data' = converted
               /\ IF "amount" \notin sales_data.columns
                  THEN result' = Error("Forecasting error: 'Column not found: amount'")
                  ELSE IF Len(daily_sales) < MinHistory
                  THEN result' = Error("Need at least 7 days of data for forecasting")
                  ELSE IF forecast_days < 1
                  THEN result' = Error("Forecasting error: Expected 2D array, got 1D array instead")
                  ELSE \E est \in Fit(random_state, Estimators) :
                          result' = ForecastResult(daily_sales, forecast_days, est)

\* ---------------------------------------------------- customer_segmentation
MinCustomers == 3

\* a cap of five clusters
MaxClustersFive == 2 + 3

MaxClusters == 4

\* the earliest, not the latest, date of the rows of a key
RECURSIVE MinDateWhere(_, _, _)
MinDateWhere(rows, key, k) ==
    IF rows = <<>> THEN 1000000
    ELSE LET rest == MinDateWhere(Tail(rows), key, k)
         IN IF Head(rows)[key] = k /\ Head(rows)["date"].v < rest
            THEN Head(rows)["date"].v ELSE rest

RECURSIVE MaxDateWhere(_, _, _)
MaxDateWhere(rows, key, k) ==
    IF rows = <<>> THEN -1000000
    ELSE LET rest == MaxDateWhere(Tail(rows), key, k)
         IN IF Head(rows)[key] = k /\ Head(rows)["date"].v > rest
            THEN Head(rows)["date"].v ELSE rest

\* an RFM table whose frequency counts records, not distinct voucher numbers
RfmByRecords(df, key) ==
    LET idx == 1..Len(df.rows)
        current_date == SetMax({df.rows[i]["date"].v : i \in idx})
        customers == SortedSeq({df.rows[i][key] : i \in idx})
    IN Tab([j \in 1..Len(customers) |->
          [customer |-> customers[j],
           recency |-> current_date - MaxDateWhere(df.rows, key, customers[j]),
           frequency |-> Cardinality({i \in idx : df.rows[i][key] = customers[j]}),
           monetary |-> SumWhere(df.rows, key, customers[j], "amount")]])

\* lines 91-99 for a grouping column: one row per distinct key, ascending
RfmBy(df, key) ==
    LET idx == 1..Len(df.rows)
        current_date == SetMax({df.rows[i]["date"].v : i \in idx})
        customers == SortedSeq({df.rows[i][key] : i \in idx})
    IN Tab([j \in 1..Len(customers) |->
          [customer |-> customers[j],
           recency |-> current_date - MaxDateWhere(df.rows, key, customers[j]),
           frequency |-> Cardinality({df.rows[i]["voucher_number"] :
                            i \in {i2 \in idx : df.rows[i2][key] = customers[j]}}),
           monetary |-> SumWhere(df.rows, key, customers[j], "amount")]])

\* the RFM table grouped by voucher instead of by counterparty
RfmByVoucher(df) == RfmBy(df, "voucher_number")

\* sales_data.groupby('party_name').agg(...)
Rfm(df) == RfmBy(df, "party_name")

\* lines 106-107: the three columns to standardize, in hundredths, recency
\* inverted to 1 / (recency + 1)
RfmFeatures(rfm) ==
    Tab([j \in 1..Len(rfm) |->
          <<100 \div (rfm[j].recency + 1), 100 * rfm[j].frequency, 100 * rfm[j].monetary>>])

\* StandardScaler.fit: per column the mean and the population standard
\* deviation, a zero deviation replaced by 1 (100 hundredths)
ScalerFit(X) ==
    LET n == Len(X)
        col == Tab([c \in 1..3 |-> Tab([j \in 1..n |-> X[j][c]])])
        sd == Tab([c \in 1..3 |-> StdDev(col[c])])
    IN [mean_  |-> Tab([c \in 1..3 |-> SumSeq(col[c]) \div n]),
        scale_ |-> Tab([c \in 1..3 |-> IF sd[c] = 0 THEN 100 ELSE sd[c]])]

\* StandardScaler.transform: (x - mean) / scale, in hundredths
ScalerTransform(sc, X) ==
    Tab([j \in 1..Len(X) |->
          Tab([c \in 1..3 |-> (100 * (X[j][c] - sc.mean_[c])) \div sc.scale_[c]])])

SqDist(a, b) ==
    (a[1] - b[1]) * (a[1] - b[1]) + (a[2] - b[2]) * (a[2] - b[2])
        + (a[3] - b[3]) * (a[3] - b[3])

Reverse(s) == Tab([i \in 1..Len(s) |-> s[Len(s) + 1 - i]])

\* the ways KMeans can seed n_clusters centers on n samples: n_clusters
\* distinct samples, taken in ascending or in descending order
Seedings(n, n_clusters) ==
    LET picks == {S \in SUBSET (1..n) : Cardinality(S) = n_clusters}
    IN {SortedSeq(S) : S \in picks} \cup {Reverse(SortedSeq(S)) : S \in picks}

\* KMeans(n_clusters).fit_predict(Z) for one seeding: the centers are the
\* seeded samples and the label of a sample is the number (from 0) of its
\* nearest center, the lowest number on a tie
KMeansFit(Z, seeds) ==
    LET centers == Tab([c \in 1..Len(seeds) |-> Z[seeds[c]]])
        nearest(z) ==
            LET best == SetMin({SqDist(z, centers[c]) : c \in 1..Len(centers)})
            IN SetMin({c \in 1..Len(centers) : SqDist(z, centers[c]) = best}) - 1
    IN [labels_ |-> Tab([j \in 1..Len(Z) |-> nearest(Z[j])]),
        cluster_centers_ |-> centers]

segment_labels == <<"Champions", "Loyal Customers", "Potential Loyalists", "At Risk">>

\* the lookup in a dict keyed from 1 instead of from 0
SegmentNameFromOne(x) ==
    IF x \in 1..4 THEN segment_labels[x] ELSE "Segment " \o ToString(x)

\* segment_labels.get(x, f'Segment {x}')
SegmentName(x) ==
    IF x \in 0..3 THEN segment_labels[x + 1] ELSE "Segment " \o ToString(x)

\* the mean of a column over the rows J of rfm, rounded to 2 decimals
RECURSIVE SumField(_, _, _)
SumField(rfm, J, f) ==
    IF J = {} THEN 0
    ELSE LET j == SetMin(J) IN rfm[j][f] + SumField(rfm, J \ {j}, f)

MeanRound2(rfm, J, f) == (200 * SumField(rfm, J, f) + Cardinality(J)) \div (2 * Cardinality(J))

\* the statistics with the member count taken as the number of distinct
\* recency values ('nunique' of the wrong column)
SegmentStatsNunique(rfm) ==
    LET names == {rfm[j].segment_name : j \in 1..Len(rfm)}
        members(nm) == {j \in 1..Len(rfm) : rfm[j].segment_name = nm}
    IN Tab([nm \in names |->
          [recency |-> MeanRound2(rfm, members(nm), "recency"),
           frequency |-> MeanRound2(rfm, members(nm), "frequency"),
           monetary |-> MeanRound2(rfm, members(nm), "monetary"),
           customer |-> Cardinality({rfm[j].recency : j \in members(nm)})]])

\* lines 126-131: rfm.groupby('segment_name').agg(...).round(2), indexed by
\* segment name
SegmentStats(rfm) ==
    LET names == {rfm[j].segment_name : j \in 1..Len(rfm)}
        members(nm) == {j \in 1..Len(rfm) : rfm[j].segment_name = nm}
    IN Tab([nm \in names |->
          [recency |-> MeanRound2(rfm, members(nm), "recency"),
           frequency |-> MeanRound2(rfm, members(nm), "frequency"),
           monetary |-> MeanRound2(rfm, members(nm), "monetary"),
           customer |-> Cardinality(members(nm))]])

\* lines 110-137: the payload from the standardized matrix
SegmentationFrom(rfm0, rfm_normalized, seeds) ==
    LET km == KMeansFit(rfm_normalized, seeds)
        rfm == Tab([j \in 1..Len(rfm0) |->
                  [customer |-> rfm0[j].customer, recency |-> rfm0[j].recency,
                   frequency |-> rfm0[j].frequency, monetary |-> rfm0[j].monetary,
                   segment |-> km.labels_[j],
                   segment_name |-> SegmentName(km.labels_[j])]])
    IN [rfm_data |-> rfm,
        segment_stats |-> SegmentStats(rfm),
        cluster_centers |-> km.cluster_centers_]

\* lines 105-137, the matrix standardized with the scaler sc
SegmentationResult(rfm0, sc, seeds) ==
    SegmentationFrom(rfm0, ScalerTransform(sc, RfmFeatures(rfm0)), seeds)

customer_segmentation ==
    LET converted == Assign(sales_data, "date", ToDatetimeDate)
        rfm == Rfm(converted)
        fitted == ScalerFit(RfmFeatures(rfm))
        n_clusters == Min2(MaxClusters, Len(rfm))
    IN /\ called' = [op |-> "customer_segmentation"]
       /\ raised' = FALSE
       /\ UNCHANGED <<sales_data0, threads, sklearn>>
       /\ IF empty(sales_data) \/ "party_name" \notin sales_data.columns
          THEN /\ result' = Error("Insufficient customer data")
               /\ UNCHANGED <<sales_data, scaler>>
          ELSE IF "date" \notin sales_data.columns
          THEN /\ result' = Error("Segmentation error: 'date'")
               /\ UNCHANGED <<sales_data, scaler>>
          ELSE /\ sales_data' = converted
               /\ IF ~({"voucher_number", "amount"} \subseteq sales_data.columns)
                  THEN /\ result' = Error("Segmentation error: Column(s) do not exist")
                       /\ UNCHANGED scaler
                  ELSE IF Len(rfm) < MinCustomers
                  THEN /\ result' = Error("Need at least 3 customers for segmentation")
                       /\ UNCHANGED scaler
                  ELSE /\ scaler' = fitted
                       /\ \E seeds \in Fit(random_state, Seedings(Len(rfm), n_clusters)) :
                             result' = SegmentationResult(rfm, fitted, seeds)

\* --------------------------------------------------- product_trend_analysis
\* a quotient num / den of integers, den > 0, kept exact
Rat(n, d) == [num |-> n, den |-> d]

RatLeq(a, b) == a.num * b.den <= b.num * a.den

RECURSIVE InsertRat(_, _)
InsertRat(x, sorted) ==
    IF sorted = <<>> THEN <<x>>
    ELSE IF RatLeq(x, Head(sorted)) THEN <<x>> \o sorted
    ELSE <<Head(sorted)>> \o InsertRat(x, Tail(sorted))

RECURSIVE SortRat(_)
SortRat(s) == IF s = <<>> THEN <<>> ELSE InsertRat(Head(s), SortRat(Tail(s)))

\* Series.quantile(0.7): linear interpolation between the two order
\* statistics around position 0.7 * (n - 1)
Quantile70(values) ==
    LET sorted == SortRat(values)
        n == Len(sorted)
        lo == (7 * (n - 1)) \div 10
        r == (7 * (n - 1)) % 10
        a == sorted[lo + 1]
        b == sorted[Min2(lo + 2, n)]
    IN Rat(10 * a.num * b.den + r * (b.num * a.den - a.num * b.den), 10 * a.den * b.den)

RECURSIVE CountWhere(_, _, _)
CountWhere(rows, key, k) ==
    IF rows = <<>> THEN 0
    ELSE (IF Head(rows)[key] = k THEN 1 ELSE 0) + CountWhere(Tail(rows), key, k)

\* the categorization without its final else branch
categorize_productNoDefault(row, velocity_threshold, frequency_threshold) ==
    IF RatLeq(velocity_threshold, row.sales_velocity)
       /\ RatLeq(frequency_threshold, Rat(row.sales_frequency, 1))
    THEN "Fast Mover"
    ELSE IF RatLeq(velocity_threshold, row.sales_velocity)
    THEN "High Value"
    ELSE IF RatLeq(frequency_threshold, Rat(row.sales_frequency, 1))
    THEN "Frequent Seller"
    ELSE "None"

\* the categorization with the two one-sided categories exchanged
categorize_productSwapped(row, velocity_threshold, frequency_threshold) ==
    IF RatLeq(velocity_threshold, row.sales_velocity)
       /\ RatLeq(frequency_threshold, Rat(row.sales_frequency, 1))
    THEN "Fast Mover"
    ELSE IF RatLeq(velocity_threshold, row.sales_velocity)
    THEN "Frequent Seller"
    ELSE IF RatLeq(frequency_threshold, Rat(row.sales_frequency, 1))
    THEN "High Value"
    ELSE "Slow Mover"

\* the categorization with strict comparisons against the thresholds
categorize_productStrict(row, velocity_threshold, frequency_threshold) ==
    IF ~RatLeq(row.sales_velocity, velocity_threshold)
       /\ ~RatLeq(Rat(row.sales_frequency, 1), frequency_threshold)
    THEN "Fast Mover"
    ELSE IF ~RatLeq(row.sales_velocity, velocity_threshold)
    THEN "High Value"
    ELSE IF ~RatLeq(Rat(row.sales_frequency, 1), frequency_threshold)
    THEN "Frequent Seller"
    ELSE "Slow Mover"

\* lines 171-179
categorize_product(row, velocity_threshold, frequency_threshold) ==
    IF RatLeq(velocity_threshold, row.sales_velocity)
       /\ RatLeq(frequency_threshold, Rat(row.sales_frequency, 1))
    THEN "Fast Mover"
    ELSE IF RatLeq(velocity_threshold, row.sales_velocity)
    THEN "High Value"
    ELSE IF RatLeq(frequency_threshold, Rat(row.sales_frequency, 1))
    THEN "Frequent Seller"
    ELSE "Slow Mover"

\* lines 156-165: one row per distinct stock_item, ascending
ProductSales(df) ==
    LET idx == 1..Len(df.rows)
        products == SortedSeq({df.rows[i]["stock_item"] : i \in idx})
        of(p) == {i \in idx : df.rows[i]["stock_item"] = p}
    IN Tab([j \in 1..Len(products) |->
          LET total == SumWhere(df.rows, "stock_item", products[j], "amount")
              count == CountWhere(df.rows, "stock_item", products[j])
              dates == {df.rows[i]["date"].v : i \in of(products[j])}
              kind == df.rows[1]["date"].kind
          IN [product |-> products[j],
              total_sales |-> total,
              transaction_count |-> count,
              avg_sale |-> Rat(total, count),
              first_sale |-> [kind |-> kind, v |-> SetMin(dates)],
              last_sale |-> [kind |-> kind, v |-> SetMax(dates)],
              sales_velocity |-> Rat(total, count),
              sales_frequency |-> count]])

\* lines 168-169: the two thresholds of a product table
Thresholds(product_sales) ==
    LET n == Len(product_sales)
    IN [velocity |-> Quantile70(Tab([j \in 1..n |-> product_sales[j].sales_velocity])),
        frequency |-> Quantile70(Tab([j \in 1..n |->
                                        Rat(product_sales[j].sales_frequency, 1)]))]

\* the categorization with thresholds kept from the call before, when there
\* was one
CategorizedCached(product_sales) ==
    LET th == IF "product_analysis" \in DOMAIN result
              THEN Thresholds(result.product_analysis)
              ELSE Thresholds(product_sales)
    IN Tab([j \in 1..Len(product_sales) |->
          [c \in DOMAIN product_sales[j] \cup {"category"} |->
              IF c = "category"
              THEN categorize_product(product_sales[j], th.velocity, th.frequency)
              ELSE product_sales[j][c]]])

\* lines 167-181: the rows with their category
Categorized(product_sales) ==
    LET n == Len(product_sales)
        velocity_threshold ==
            Quantile70(Tab([j \in 1..n |-> product_sales[j].sales_velocity]))
        frequency_threshold ==
            Quantile70(Tab([j \in 1..n |-> Rat(product_sales[j].sales_frequency, 1)]))
    IN Tab([j \in 1..n |->
          [c \in DOMAIN product_sales[j] \cup {"category"} |->
              IF c = "category"
              THEN categorize_product(product_sales[j], velocity_threshold,
                                      frequency_threshold)
              ELSE product_sales[j][c]]])

\* the rows of a frame whose category is cat, in order
RECURSIVE RowsOfCategory(_, _)
RowsOfCategory(rows, cat) ==
    IF rows = <<>> THEN <<>>
    ELSE (IF Head(rows)["category"] = cat THEN <<Head(rows)>> ELSE <<>>)
         \o RowsOfCategory(Tail(rows), cat)

\* lines 186: groupby(['stock_item', 'month'])['amount'].sum()
RECURSIVE SumWhere2(_, _, _)
SumWhere2(rows, p, m) ==
    IF rows = <<>> THEN 0
    ELSE (IF Head(rows)["stock_item"] = p /\ Head(rows)["month"] = m
          THEN Head(rows)["amount"] ELSE 0)
         + SumWhere2(Tail(rows), p, m)

MonthlyTrends(df) ==
    LET idx == 1..Len(df.rows)
        keys == SortedSeq({100 * df.rows[i]["stock_item"] + df.rows[i]["month"] : i \in idx})
    IN Tab([j \in 1..Len(keys) |->
          [stock_item |-> keys[j] \div 100, month |-> keys[j] % 100,
           amount |-> SumWhere2(df.rows, keys[j] \div 100, keys[j] % 100)]])

product_trend_analysis ==
    LET product_sales == Categorized(ProductSales(sales_data))
        extended == Assign(Assign(sales_data, "date", ToDatetimeDate), "month", MonthOfRow)
    IN /\ called' = [op |-> "product_trend_analysis"]
       /\ raised' = FALSE
       /\ UNCHANGED <<sales_data0, scaler, threads, sklearn>>
       /\ IF empty(sales_data)
          THEN /\ result' = Error("No sales data available")
               /\ UNCHANGED sales_data
          ELSE IF "stock_item" \notin sales_data.columns
          THEN /\ result' = Error("Stock item information not available in sales data")
               /\ UNCHANGED sales_data
          ELSE IF ~({"amount", "date"} \subseteq sales_data.columns)
          THEN /\ result' = Error("Product analysis error: Column(s) do not exist")
               /\ UNCHANGED sales_data
          ELSE /\ sales_data' = extended
               /\ result' = [product_analysis |-> product_sales,
                             monthly_trends |-> MonthlyTrends(extended),
                             fast_movers |-> RowsOfCategory(product_sales, "Fast Mover"),
                             slow_movers |-> RowsOfCategory(product_sales, "Slow Mover")]

\* ----------------------------------------------- seasonal_pattern_analysis
month_names == <<"January", "February", "March", "April", "May", "June", "July",
                 "August", "September", "October", "November", "December">>

day_names == <<"Monday", "Tuesday", "Wednesday", "Thursday", "Friday",
               "Saturday", "Sunday">>

\* the batch after lines 204-208
SeasonalColumns(df) ==
    LET d1 == Assign(df, "date", ToDatetimeDate)
        d2 == Assign(d1, "month", MonthOfRow)
        d3 == Assign(d2, "quarter", QuarterOfRow)
        d4 == Assign(d3, "day_of_week", DayOfWeekOfRow)
    IN Assign(d4, "week_of_year", WeekOfYearOfRow)

SeasonalResult(df) ==
    LET monthly_sales == GroupSum(df, "month", "amount")
        weekly_sales == GroupSum(df, "day_of_week", "amount")
        quarterly_sales == GroupSum(df, "quarter", "amount")
    IN [monthly_patterns |->
            Tab([j \in 1..Len(monthly_sales) |->
                [month |-> monthly_sales[j].k, amount |-> monthly_sales[j].amount,
                 month_name |-> month_names[monthly_sales[j].k]]]),
        weekly_patterns |->
            Tab([j \in 1..Len(weekly_sales) |->
                [day_of_week |-> weekly_sales[j].k, amount |-> weekly_sales[j].amount,
                 day_name |-> day_names[weekly_sales[j].k + 1]]]),
        quarterly_patterns |->
            Tab([j \in 1..Len(quarterly_sales) |->
                [quarter |-> quarterly_sales[j].k, amount |-> quarterly_sales[j].amount]]),
        peak_month |-> month_names[monthly_sales[idxmax(monthly_sales)].k],
        peak_day |-> day_names[weekly_sales[idxmax(weekly_sales)].k + 1]]

seasonal_pattern_analysis ==
    LET extended == SeasonalColumns(sales_data)
    IN /\ called' = [op |-> "seasonal_pattern_analysis"]
       /\ raised' = FALSE
       /\ UNCHANGED <<sales_data0, scaler, threads, sklearn>>
       /\ IF empty(sales_data)
          THEN /\ result' = Error("No sales data available")
               /\ UNCHANGED sales_data
          ELSE IF "date" \notin sales_data.columns
          THEN /\ result' = Error("Seasonal analysis error: 'date'")
               /\ UNCHANGED sales_data
          ELSE /\ sales_data' = extended
               /\ IF "amount" \notin sales_data.columns
                  THEN result' = Error("Seasonal analysis error: 'Column not found: amount'")
                  ELSE result' = SeasonalResult(extended)

\* ----------------------------------------------------------- calculate_kpis
InventoryColumns == {"name", "closing_balance", "closing_value", "reorder_level"}

OutstandingColumns == {"party_name", "closing_balance"}

InventoryFrame(m, cols) ==
    IF m = 0 THEN EmptyFrame
    ELSE [columns |-> cols,
          rows |-> Tab([i \in 1..m |->
             Tab([c \in cols |->
                CASE c = "name"            -> i
                  [] c = "closing_balance" -> 3 * i - 3
                  [] c = "closing_value"   -> 10 * i
                  [] c = "reorder_level"   -> 2])])]

OutstandingFrame(m, cols) ==
    IF m = 0 THEN EmptyFrame
    ELSE [columns |-> cols,
          rows |-> Tab([i \in 1..m |->
             Tab([c \in cols |->
                CASE c = "party_name"      -> i
                  [] c = "closing_balance" -> 12 - 8 * i])])]

\* the inventory and outstanding snapshots a caller passes
InventoryFrames ==
    {InventoryFrame(m, InventoryColumns) : m \in {0, MaxSnapshot}}
    \cup {InventoryFrame(MaxSnapshot, InventoryColumns \ {"closing_value"})}

OutstandingFrames ==
    {OutstandingFrame(m, OutstandingColumns) : m \in {0, MaxSnapshot}}
    \cup {OutstandingFrame(MaxSnapshot, OutstandingColumns \ {"closing_balance"})}

\* len(df[df['closing_balance'] <= df['reorder_level']])
RECURSIVE CountLowStock(_)
CountLowStock(rows) ==
    IF rows = <<>> THEN 0
    ELSE (IF Head(rows)["closing_balance"] <= Head(rows)["reorder_level"] THEN 1 ELSE 0)
         + CountLowStock(Tail(rows))

\* len(df[df['closing_balance'] > 0])
RECURSIVE CountOverdue(_)
CountOverdue(rows) ==
    IF rows = <<>> THEN 0
    ELSE (IF Head(rows)["closing_balance"] > 0 THEN 1 ELSE 0) + CountOverdue(Tail(rows))

\* the sales entries zero-filled for an empty snapshot
SalesKpisZeroFilled(df) ==
    IF empty(df) THEN [total_sales |-> 0, avg_transaction_value |-> 0, sales_count |-> 0]
    ELSE [total_sales |-> SumSeq(Column(df, "amount")),
          avg_transaction_value |-> Rat(SumSeq(Column(df, "amount")), Len(df.rows)),
          sales_count |-> Len(df.rows)]

\* lines 470-473, 475-478, 480-482: the entries each snapshot contributes
SalesKpis(df) ==
    IF empty(df) THEN NoDict
    ELSE [total_sales |-> SumSeq(Column(df, "amount")),
          avg_transaction_value |-> Rat(SumSeq(Column(df, "amount")), Len(df.rows)),
          sales_count |-> Len(df.rows)]

InventoryKpis(df) ==
    IF empty(df) THEN NoDict
    ELSE [total_inventory_value |-> SumSeq(Column(df, "closing_value")),
          inventory_items |-> Len(df.rows),
          low_stock_items |-> CountLowStock(df.rows)]

OutstandingKpis(df) ==
    IF empty(df) THEN NoDict
    ELSE [total_receivables |-> SumSeq(Column(df, "closing_balance")),
          overdue_customers |-> CountOverdue(df.rows)]

\* the columns each non-empty snapshot is read by
KpiReads(df, cols) == empty(df) \/ cols \subseteq df.columns

calculate_kpis(inventory_data, outstanding_data) ==
    /\ called' = [op |-> "calculate_kpis", inventory_data |-> inventory_data,
                  outstanding_data |-> outstanding_data]
    /\ UNCHANGED <<sales_data, sales_data0, scaler, threads, sklearn>>
    /\ IF /\ KpiReads(sales_data, {"amount"})
          /\ KpiReads(inventory_data, {"closing_value", "closing_balance", "reorder_level"})
          /\ KpiReads(outstanding_data, {"closing_balance"})
       THEN /\ raised' = FALSE
            /\ result' = SalesKpis(sales_data) @@ InventoryKpis(inventory_data)
                            @@ OutstandingKpis(outstanding_data)
       ELSE /\ raised' = TRUE
            /\ result' = NoDict

Next ==
    \/ (\E h \in 0..MaxHorizon : sales_forecasting(h)) /\ UNCHANGED app
    \/ customer_segmentation /\ UNCHANGED app
    \/ product_trend_analysis /\ UNCHANGED app
    \/ seasonal_pattern_analysis /\ UNCHANGED app
    \/ (\E inv \in InventoryFrames, out \in OutstandingFrames : calculate_kpis(inv, out))
       /\ UNCHANGED app

Spec == Init /\ [][Next]_vars

\* ------------------------------------------------- a seeded scikit-learn
\* the same engine and callers, the library honouring random_state
InitSeeded ==
    /\ sales_data \in SalesFrames
    /\ sales_data0 = sales_data
    /\ called = [op |-> "none"]
    /\ result = NoDict
    /\ raised = FALSE
    /\ scaler = [mean_ |-> <<>>, scale_ |-> <<>>]
    /\ threads = <<>>
    /\ sklearn = "seeded"
    /\ session_state = NoDict
    /\ page = [view |-> "none"]
    /\ alert_rules = NoDict
    /\ now = 0

SpecSeeded == InitSeeded /\ [][Next]_vars

\* ------------------------------------------- one engine, batch after batch
\* the caller fetches another batch and hands it to the same engine; the
\* result of the call before stays with the caller
BatchFrames ==
    {MakeFrame(n, FullColumns, dp, shape) :
        n \in {0, MaxLen - 1, MaxLen}, dp \in DatePatterns, shape \in Shapes}
    \cup
    {MakeFrame(MaxLen, cols, "mix", "saw") : cols \in ColumnSets}

fetch_sales_data ==
    /\ sales_data' \in BatchFrames
    /\ sales_data0' = sales_data'
    /\ called' = [op |-> "none"]
    /\ raised' = FALSE
    /\ UNCHANGED <<result, scaler, threads, sklearn>>

NextBatches ==
    \/ product_trend_analysis /\ UNCHANGED app
    \/ fetch_sales_data /\ UNCHANGED app

SpecBatches == Init /\ [][NextBatches]_vars

\* ------------------------------------ concurrent customer_segmentation calls
\* Two threads call customer_segmentation on one engine, each with a batch
\* of its own.  A call runs in four steps, between which the other thread
\* may run: lines 85-107 (guards and the RFM table), then the two halves of
\* self.scaler.fit_transform (fit, which stores the parameters in
\* self.scaler, and transform, which reads them back), then lines 110-137.
Threads == {1, 2}

ConcurrentFrames ==
    {MakeFrame(n, FullColumns, dp, "saw") : n \in {2, 3, 4}, dp \in {"mix", "desc"}}

Local(df) ==
    [pc |-> "call", sales_data |-> df, sales_data0 |-> df, rfm |-> <<>>,
     rfm_normalized |-> <<>>, result |-> NoDict]

InitConcurrent ==
    /\ sales_data = EmptyFrame
    /\ sales_data0 = EmptyFrame
    /\ called = [op |-> "none"]
    /\ result = NoDict
    /\ raised = FALSE
    /\ scaler = [mean_ |-> <<>>, scale_ |-> <<>>]
    /\ threads \in [Threads -> {Local(df) : df \in ConcurrentFrames}]
    /\ sklearn = "any"
    /\ session_state = NoDict
    /\ page = [view |-> "none"]
    /\ alert_rules = NoDict
    /\ now = 0

\* lines 85-107, for a batch of whole records
segmentation_prepare(t) ==
    LET my == threads[t]
        converted == Assign(my.sales_data, "date", ToDatetimeDate)
        rfm == Rfm(converted)
    IN /\ my.pc = "call"
       /\ UNCHANGED <<sales_data, sales_data0, called, result, raised, scaler, sklearn>>
       /\ IF empty(my.sales_data) \/ "party_name" \notin my.sales_data.columns
          THEN threads' = [threads EXCEPT ![t].pc = "done",
                              ![t].result = Error("Insufficient customer data")]
          ELSE IF Len(rfm) < MinCustomers
          THEN threads' = [threads EXCEPT ![t].pc = "done",
                              ![t].sales_data = converted,
                              ![t].result = Error("Need at least 3 customers for segmentation")]
          ELSE threads' = [threads EXCEPT ![t].pc = "fit",
                              ![t].sales_data = converted,
                              ![t].rfm = rfm]

\* line 108, StandardScaler.fit: the parameters go to self.scaler
segmentation_fit(t) ==
    /\ threads[t].pc = "fit"
    /\ scaler' = ScalerFit(RfmFeatures(threads[t].rfm))
    /\ threads' = [threads EXCEPT ![t].pc = "transform"]
    /\ UNCHANGED <<sales_data, sales_data0, called, result, raised, sklearn>>

\* line 108, StandardScaler.transform: with the parameters self.scaler holds
segmentation_transform(t) ==
    LET rfm_normalized == ScalerTransform(scaler, RfmFeatures(threads[t].rfm))
    IN /\ threads[t].pc = "transform"
       /\ threads' = [threads EXCEPT ![t].pc = "cluster",
                                     ![t].rfm_normalized = rfm_normalized]
       /\ UNCHANGED <<sales_data, sales_data0, called, result, raised, scaler, sklearn>>

\* lines 110-137
segmentation_cluster(t) ==
    LET my == threads[t]
        n_clusters == Min2(MaxClusters, Len(my.rfm))
    IN /\ my.pc = "cluster"
       /\ \E seeds \in Fit(random_state, Seedings(Len(my.rfm), n_clusters)) :
             threads' = [threads EXCEPT ![t].pc = "done",
                            ![t].result = SegmentationFrom(my.rfm, my.rfm_normalized, seeds)]
       /\ UNCHANGED <<sales_data, sales_data0, called, result, raised, scaler, sklearn>>

NextConcurrent ==
    \/ (\E t \in Threads : segmentation_prepare(t)) /\ UNCHANGED app
    \/ (\E t \in Threads : segmentation_fit(t)) /\ UNCHANGED app
    \/ (\E t \in Threads : segmentation_transform(t)) /\ UNCHANGED app
    \/ (\E t \in Threads : segmentation_cluster(t)) /\ UNCHANGED app

SpecConcurrent == InitConcurrent /\ [][NextConcurrent]_vars


\* ------------------------------------------------ the analytics page views
\* One script run of pages/06_Analytics.py renders the selected view on the
\* batch it fetched: the view calls the engine and reads the dict returned.
engine == <<sales_data, sales_data0, called, result, raised, scaler, threads, sklearn>>

PageFrames ==
    {MakeFrame(n, FullColumns, dp, "saw") : n \in {0, 3, MaxLen}, dp \in {"desc", "mix"}}
    \cup
    {MakeFrame(MaxLen, cols, "mix", "saw") : cols \in ColumnSets}

InitPages ==
    /\ sales_data \in PageFrames
    /\ sales_data0 = sales_data
    /\ called = [op |-> "none"]
    /\ result = NoDict
    /\ raised = FALSE
    /\ scaler = [mean_ |-> <<>>, scale_ |-> <<>>]
    /\ threads = <<>>
    /\ sklearn = "any"
    /\ session_state = NoDict
    /\ page = [view |-> "none", forecast_days |-> 0, button |-> FALSE, calls |-> <<>>]
    /\ alert_rules = NoDict
    /\ now = 0

\* st.session_state.get(key, default)
Get(d, key, default) == IF key \in DOMAIN d THEN d[key] ELSE default

\* d[key] = value on a dict
Put(d, key, value) == (key :> value) @@ d

\* a view that reads the payload keys whether or not 'error' is there
ReadUnchecked(res, payload, otherwise) ==
    [failed |-> "error" \in DOMAIN res, keys |-> payload]

\* if 'error' not in res: read the payload keys; else: read the others
Read(res, payload, otherwise) ==
    [failed |-> "error" \in DOMAIN res,
     keys |-> IF "error" \notin DOMAIN res THEN payload ELSE otherwise]

\* the forecasting view with a flag the view clears once it has forecast
render_sales_forecastingOnce(button, forecast_days) ==
    LET generate_forecast == button \/ Get(session_state, "generate_forecast", FALSE)
    IN /\ UNCHANGED <<alert_rules, now>>
       /\ IF generate_forecast /\ ~empty(sales_data)
          THEN /\ session_state' = Put(session_state, "generate_forecast", FALSE)
               /\ sales_forecasting(forecast_days)
               /\ page' = [view |-> "render_sales_forecasting",
                           forecast_days |-> forecast_days, button |-> button,
                           calls |-> <<[op |-> "sales_forecasting"]
                                       @@ Read(result', {"historical_data", "forecast_dates",
                                                         "forecast_values", "confidence_upper",
                                                         "confidence_lower"}, {"error"})>>]
          ELSE /\ session_state' = IF button THEN Put(session_state, "generate_forecast", TRUE)
                                   ELSE session_state
               /\ UNCHANGED engine
               /\ page' = [view |-> "render_sales_forecasting",
                           forecast_days |-> forecast_days, button |-> button,
                           calls |-> <<>>]

\* src/analytics.py:235-315; model_accuracy is read with .get and a default
render_sales_forecasting(button, forecast_days) ==
    LET generate_forecast == button \/ Get(session_state, "generate_forecast", FALSE)
    IN /\ session_state' = IF button THEN Put(session_state, "generate_forecast", TRUE)
                           ELSE session_state
       /\ UNCHANGED <<alert_rules, now>>
       /\ IF generate_forecast /\ ~empty(sales_data)
          THEN /\ sales_forecasting(forecast_days)
               /\ page' = [view |-> "render_sales_forecasting",
                           forecast_days |-> forecast_days, button |-> button,
                           calls |-> <<[op |-> "sales_forecasting"]
                                       @@ Read(result', {"historical_data", "forecast_dates",
                                                         "forecast_values", "confidence_upper",
                                                         "confidence_lower"}, {"error"})>>]
          ELSE /\ UNCHANGED engine
               /\ page' = [view |-> "render_sales_forecasting",
                           forecast_days |-> forecast_days, button |-> button,
                           calls |-> <<>>]

\* a view without widgets of its own that calls one operation on a
\* non-empty batch and reads payload keys of the dict returned
View(name, op, payload) ==
    [view |-> name, forecast_days |-> 0, button |-> FALSE,
     calls |-> <<[op |-> op] @@ Read(result', payload, {"error"})>>]

Skipped(name) == [view |-> name, forecast_days |-> 0, button |-> FALSE, calls |-> <<>>]

\* src/analytics.py:317-359
render_customer_segmentation ==
    /\ UNCHANGED <<session_state, alert_rules, now>>
    /\ IF ~empty(sales_data)
       THEN /\ customer_segmentation
            /\ page' = View("render_customer_segmentation", "customer_segmentation",
                            {"rfm_data", "segment_stats"})
       ELSE /\ UNCHANGED engine
            /\ page' = Skipped("render_customer_segmentation")

\* src/analytics.py:361-416
render_seasonal_analysis ==
    /\ UNCHANGED <<session_state, alert_rules, now>>
    /\ IF ~empty(sales_data)
       THEN /\ seasonal_pattern_analysis
            /\ page' = View("render_seasonal_analysis", "seasonal_pattern_analysis",
                            {"monthly_patterns", "weekly_patterns", "quarterly_patterns",
                             "peak_month", "peak_day"})
       ELSE /\ UNCHANGED engine
            /\ page' = Skipped("render_seasonal_analysis")

\* src/pages/06_Analytics.py:348-421
render_product_trend_analysis ==
    /\ UNCHANGED <<session_state, alert_rules, now>>
    /\ IF ~empty(sales_data)
       THEN /\ product_trend_analysis
            /\ page' = View("render_product_trend_analysis", "product_trend_analysis",
                            {"product_analysis", "fast_movers", "slow_movers"})
       ELSE /\ UNCHANGED engine
            /\ page' = Skipped("render_product_trend_analysis")

\* src/pages/06_Analytics.py:588-667 with the forecast part of
\* generate_business_recommendations (lines 720-723); the 30-day horizon is
\* the longest of the model
render_predictive_insights ==
    /\ UNCHANGED <<session_state, alert_rules, now>>
    /\ IF ~empty(sales_data)
       THEN /\ sales_forecasting(MaxHorizon)
            /\ page' = View("render_predictive_insights", "sales_forecasting",
                            {"historical_data", "forecast_dates", "forecast_values",
                             "confidence_upper", "confidence_lower"})
       ELSE /\ UNCHANGED engine
            /\ page' = Skipped("render_predictive_insights")

NextPages ==
    \/ \E button \in BOOLEAN, forecast_days \in 1..MaxHorizon :
          render_sales_forecasting(button, forecast_days)
    \/ render_customer_segmentation
    \/ render_seasonal_analysis
    \/ render_product_trend_analysis
    \/ render_predictive_insights

SpecPages == InitPages /\ [][NextPages]_vars


\* ----------------------------------------------------------------- alerts
\* src/src/alerts.py.  Every handler builds an AlertManager of its own:
\* __init__ sets the default rules and loads the alerts the session holds;
\* a method that changes the alerts saves them back to the session.

\* AlertType and AlertPriority: member name -> value
AlertType ==
    [INFO |-> "info", WARNING |-> "warning", ERROR |-> "error",
     CRITICAL |-> "critical", SUCCESS |-> "success"]

AlertPriority == [LOW |-> "low", MEDIUM |-> "medium", HIGH |-> "high", CRITICAL |-> "critical"]

\* AlertType(value): the member of a value
Member(enum, value) == CHOOSE m \in DOMAIN enum : enum[m] = value

\* datetime.isoformat and datetime.fromisoformat, on whole seconds
isoformat(t) == [iso |-> t]

fromisoformat(x) == x.iso

\* Alert.to_dict (message and auto_resolve, which nothing reads, left out)
to_dict(alert) ==
    [id |-> alert.id, title |-> alert.title,
     alert_type |-> AlertType[alert.alert_type],
     priority |-> AlertPriority[alert.priority],
     timestamp |-> isoformat(alert.timestamp),
     source |-> alert.source, data |-> alert.data,
     acknowledged |-> alert.acknowledged, resolved |-> alert.resolved]

\* Alert.from_dict
from_dict(data) ==
    [id |-> data.id, title |-> data.title,
     alert_type |-> Member(AlertType, data.alert_type),
     priority |-> Member(AlertPriority, data.priority),
     timestamp |-> fromisoformat(data.timestamp),
     source |-> data.source, data |-> data.data,
     acknowledged |-> data.acknowledged, resolved |-> data.resolved]

\* the rules the checks read, of the six of _get_default_alert_rules
DefaultAlertRules ==
    [low_stock |-> [enabled |-> TRUE, threshold |-> 10],
     zero_stock |-> [enabled |-> TRUE, threshold |-> 0],
     high_receivables |-> [enabled |-> TRUE, threshold |-> 100000],
     sales_drop |-> [enabled |-> TRUE, threshold_percentage |-> 20, comparison_days |-> 7]]

\* _load_alerts
LoadAlerts(ss) ==
    IF "alerts" \in DOMAIN ss
    THEN Tab([i \in 1..Len(ss["alerts"]) |-> from_dict(ss["alerts"][i])])
    ELSE <<>>

\* _save_alerts
SaveAlerts(ss, alerts) ==
    Put(ss, "alerts", Tab([i \in 1..Len(alerts) |-> to_dict(alerts[i])]))

\* f"alert_{now:%Y%m%d_%H%M%S}_{len(self.alerts)}"
AlertId(alerts, t) == <<t, Len(alerts)>>

\* add_alert on the list of a manager, at second t
AddAlert(alerts, title, alert_type, priority, source, data, t) ==
    Append(alerts,
           [id |-> AlertId(alerts, t), title |-> title, alert_type |-> alert_type,
            priority |-> priority, timestamp |-> t, source |-> source, data |-> data,
            acknowledged |-> FALSE, resolved |-> FALSE])

\* the index of the first alert with an id, 0 when there is none
FirstWithId(alerts, alert_id) ==
    LET I == {i \in 1..Len(alerts) : alerts[i].id = alert_id}
    IN IF I = {} THEN 0 ELSE SetMin(I)

\* clear_resolved_alerts on a list
RECURSIVE ClearResolved(_)
ClearResolved(alerts) ==
    IF alerts = <<>> THEN <<>>
    ELSE (IF Head(alerts).resolved THEN <<>> ELSE <<Head(alerts)>>)
         \o ClearResolved(Tail(alerts))

\* 'zero stock' in alert.title.lower(), and the like
TitleHas(alert, words) ==
    CASE words = "zero stock"       -> alert.title = "Zero Stock Critical"
      [] words = "high receivables" -> alert.title = "High Receivables Alert"
      [] words = "sales drop"       -> alert.title = "Sales Drop Alert"

\* an existing-alert test that takes an acknowledged alert for a closed one
ExistingForItemUnacknowledged(alerts, name) ==
    \E i \in 1..Len(alerts) :
        /\ alerts[i].source = "inventory"
        /\ "item_name" \in DOMAIN alerts[i].data
        /\ alerts[i].data["item_name"] = name
        /\ ~alerts[i].acknowledged

\* lines 215-221: an unresolved inventory alert of the item, of any title
ExistingForItem(alerts, name) ==
    \E i \in 1..Len(alerts) :
        /\ alerts[i].source = "inventory"
        /\ "item_name" \in DOMAIN alerts[i].data
        /\ alerts[i].data["item_name"] = name
        /\ ~alerts[i].resolved

\* lines 246-253
ExistingZeroStock(alerts, name) ==
    \E i \in 1..Len(alerts) :
        /\ alerts[i].source = "inventory"
        /\ "item_name" \in DOMAIN alerts[i].data
        /\ alerts[i].data["item_name"] = name
        /\ TitleHas(alerts[i], "zero stock")
        /\ ~alerts[i].resolved

\* lines 287-292, 343-348
ExistingOfSource(alerts, source, words) ==
    \E i \in 1..Len(alerts) :
        /\ alerts[i].source = source
        /\ TitleHas(alerts[i], words)
        /\ ~alerts[i].resolved

\* lines 206-237: the low stock loop over the rows at or under the
\* threshold; the message reads item['base_unit']. m is the manager in the
\* middle of the check: its alerts, and whether an exception has ended it
RECURSIVE LowStockLoop(_, _, _, _, _)
LowStockLoop(m, rows, cols, threshold, t) ==
    IF rows = <<>> \/ m.raised THEN m
    ELSE LET item == Head(rows)
         IN IF item["closing_balance"] > threshold \/ ExistingForItem(m.alerts, item["name"])
            THEN LowStockLoop(m, Tail(rows), cols, threshold, t)
            ELSE IF "base_unit" \notin cols
            THEN [m EXCEPT !.raised = TRUE]
            ELSE LowStockLoop(
                    [m EXCEPT !.alerts =
                        AddAlert(m.alerts, "Low Stock Alert", "WARNING", "MEDIUM",
                                 "inventory", [item_name |-> item["name"]], t)],
                    Tail(rows), cols, threshold, t)

\* lines 239-268: the zero stock loop
RECURSIVE ZeroStockLoop(_, _, _, _)
ZeroStockLoop(m, rows, cols, t) ==
    IF rows = <<>> \/ m.raised THEN m
    ELSE LET item == Head(rows)
         IN IF item["closing_balance"] > 0 \/ ExistingZeroStock(m.alerts, item["name"])
            THEN ZeroStockLoop(m, Tail(rows), cols, t)
            ELSE IF "base_unit" \notin cols
            THEN [m EXCEPT !.raised = TRUE]
            ELSE ZeroStockLoop(
                    [m EXCEPT !.alerts =
                        AddAlert(m.alerts, "Zero Stock Critical", "ERROR", "HIGH",
                                 "inventory", [item_name |-> item["name"]], t)],
                    Tail(rows), cols, t)

\* check_inventory_alerts: the alerts of the manager afterwards
check_inventory_alerts(alerts, rules, inventory_data, t) ==
    IF empty(inventory_data) THEN alerts
    ELSE IF ~({"closing_balance", "name"} \subseteq inventory_data.columns)
         THEN alerts
    ELSE LET m == [alerts |-> alerts, raised |-> FALSE]
             low == IF rules.low_stock.enabled
                    THEN LowStockLoop(m, inventory_data.rows,
                                      inventory_data.columns, rules.low_stock.threshold, t)
                    ELSE m
             zero == IF rules.zero_stock.enabled
                     THEN ZeroStockLoop(low, inventory_data.rows, inventory_data.columns, t)
                     ELSE low
         IN zero.alerts

\* check_receivables_alerts
check_receivables_alerts(alerts, rules, outstanding_data, t) ==
    IF empty(outstanding_data) \/ ~rules.high_receivables.enabled THEN alerts
    ELSE IF "closing_balance" \notin outstanding_data.columns THEN alerts
    ELSE LET high_receivables ==
                 {i \in 1..Len(outstanding_data.rows) :
                     outstanding_data.rows[i]["closing_balance"]
                         > rules.high_receivables.threshold}
         IN IF high_receivables = {}
               \/ ExistingOfSource(alerts, "receivables", "high receivables")
            THEN alerts
            ELSE AddAlert(alerts, "High Receivables Alert", "WARNING", "MEDIUM",
                          "receivables",
                          [party_count |-> Cardinality(high_receivables),
                           threshold |-> rules.high_receivables.threshold], t)

\* the day the clock runs in, and a day in seconds
Today == DaysFromCivil(2024, 3, 15)

Day == 86400

\* the selections of lines 328-337, on seconds: the amounts of the rows
\* dated at or after from
RECURSIVE SalesSince(_, _)
SalesSince(rows, from) ==
    IF rows = <<>> THEN 0
    ELSE (IF from <= to_datetime(Head(rows)["date"]).v * Day
          THEN Head(rows)["amount"] ELSE 0)
         + SalesSince(Tail(rows), from)

\* check_sales_alerts; drop_percentage >= threshold_pct without the division
check_sales_alerts(alerts, rules, df, t) ==
    IF empty(df) \/ ~rules.sales_drop.enabled THEN alerts
    ELSE IF ~({"date", "amount"} \subseteq df.columns) THEN alerts
    ELSE LET current_date == Today * Day + t
             comparison_days == rules.sales_drop.comparison_days
             threshold_pct == rules.sales_drop.threshold_percentage
             current_start == current_date - comparison_days * Day
             current_sales == SalesSince(df.rows, current_start)
             previous_start == current_start - comparison_days * Day
             previous_sales == SalesSince(df.rows, previous_start)
                               - SalesSince(df.rows, current_start)
         IN IF previous_sales > 0
               /\ (previous_sales - current_sales) * 100 >= threshold_pct * previous_sales
               /\ ~ExistingOfSource(alerts, "sales", "sales drop")
            THEN AddAlert(alerts, "Sales Drop Alert", "WARNING", "MEDIUM", "sales",
                          [comparison_days |-> comparison_days], t)
            ELSE alerts


\* the alerts a session holds and the seconds the clock shows, at most
MaxAlerts == 2

MaxClock == 1

StockFrame(b1, b2, cols) ==
    [columns |-> cols,
     rows |-> Tab([i \in 1..2 |->
        Tab([c \in cols |->
           CASE c = "name"            -> i
             [] c = "closing_balance" -> IF i = 1 THEN b1 ELSE b2
             [] c = "base_unit"       -> "Nos"])])]

ReceivableFrame(b) ==
    [columns |-> {"party_name", "closing_balance"},
     rows |-> << Tab([c \in {"party_name", "closing_balance"} |->
                      IF c = "party_name" THEN 1 ELSE b]) >>]

\* two records: one a given number of days ago, one ten days ago
DropFrame(days_ago, amount) ==
    [columns |-> {"date", "amount"},
     rows |-> << Tab([c \in {"date", "amount"} |->
                      IF c = "date" THEN DateString(Today - 10) ELSE 100]),
                 Tab([c \in {"date", "amount"} |->
                      IF c = "date" THEN DateString(Today - days_ago) ELSE amount]) >>]

\* the snapshots of one run of a page: of one kind, or of all three
Snapshots ==
    LET cols == {"name", "closing_balance", "base_unit"}
    IN {<<EmptyFrame, inventory_data, EmptyFrame>> :
           inventory_data \in {StockFrame(0, 20, cols), StockFrame(5, 20, cols),
                               StockFrame(20, 5, cols),
                               StockFrame(0, 20, cols \ {"base_unit"})}}
       \cup {<<EmptyFrame, EmptyFrame, ReceivableFrame(b)>> : b \in {150000, 100000}}
       \cup {<<df, EmptyFrame, EmptyFrame>> :
                df \in {DropFrame(2, 50), DropFrame(2, 90), DropFrame(7, 100)}}
       \cup {<<DropFrame(2, 50), StockFrame(5, 20, cols), ReceivableFrame(150000)>>}

\* the values the settings form holds for the low stock rule
Forms == {[enabled |-> TRUE, threshold |-> 10], [enabled |-> FALSE, threshold |-> 3]}

InitAlerts ==
    /\ sales_data = EmptyFrame
    /\ sales_data0 = EmptyFrame
    /\ called = [op |-> "none"]
    /\ result = NoDict
    /\ raised = FALSE
    /\ scaler = [mean_ |-> <<>>, scale_ |-> <<>>]
    /\ threads = <<>>
    /\ sklearn = "any"
    /\ session_state = NoDict
    /\ page = [view |-> "none", saved |-> NoDict]
    /\ alert_rules = NoDict
    /\ now = 0

\* what the alert handlers leave alone
idle == <<sales_data, sales_data0, raised, scaler, threads, sklearn>>

\* a second passes
tick ==
    /\ now < MaxClock
    /\ now' = now + 1
    /\ UNCHANGED <<idle, called, result, session_state, page, alert_rules>>

\* pages/04_Inventory_Management.py:469-479 for one item to reorder:
\* AlertManager().add_alert(...)
add_alert(name) ==
    LET alerts == LoadAlerts(session_state)
        added == AddAlert(alerts, "Reorder Alert", "WARNING", "MEDIUM", "inventory",
                          [item_name |-> name], now)
    IN /\ Len(alerts) < MaxAlerts
       /\ session_state' = SaveAlerts(session_state, added)
       /\ alert_rules' = DefaultAlertRules
       /\ called' = [op |-> "add_alert"]
       /\ result' = [value |-> added[Len(added)].id]
       /\ UNCHANGED <<idle, page, now>>

\* lines 165-172, from the Acknowledge button of render_alerts_panel
acknowledge_alert(alert_id) ==
    LET alerts == LoadAlerts(session_state)
        i == FirstWithId(alerts, alert_id)
    IN /\ alert_rules' = DefaultAlertRules
       /\ called' = [op |-> "acknowledge_alert"]
       /\ result' = [value |-> i # 0]
       /\ session_state' = IF i = 0 THEN session_state
                           ELSE SaveAlerts(session_state,
                                           [alerts EXCEPT ![i].acknowledged = TRUE])
       /\ UNCHANGED <<idle, page, now>>

\* lines 174-181, from the Resolve button of render_alerts_panel
resolve_alert(alert_id) ==
    LET alerts == LoadAlerts(session_state)
        i == FirstWithId(alerts, alert_id)
    IN /\ alert_rules' = DefaultAlertRules
       /\ called' = [op |-> "resolve_alert"]
       /\ result' = [value |-> i # 0]
       /\ session_state' = IF i = 0 THEN session_state
                           ELSE SaveAlerts(session_state,
                                           [alerts EXCEPT ![i].resolved = TRUE])
       /\ UNCHANGED <<idle, page, now>>

\* lines 507-519: the rules after Save, from the widget values of the session
SavedRules(rules, ss) ==
    Tab([rule_name \in DOMAIN rules |->
        Tab([k \in DOMAIN rules[rule_name] |->
            CASE k = "enabled" -> ss["enabled_" \o rule_name]
              [] k = "threshold" /\ ("threshold_" \o rule_name) \in DOMAIN ss
                    -> ss["threshold_" \o rule_name]
              [] k = "threshold_percentage" /\ ("threshold_pct_" \o rule_name) \in DOMAIN ss
                    -> ss["threshold_pct_" \o rule_name]
              [] OTHER -> rules[rule_name][k]])])

\* lines 451-503: the keyed widgets of the form put their values in the
\* session; the form shows the rules of the manager, the user sets the
\* low stock ones
Widgets(rules, form) ==
    [enabled_low_stock |-> form.enabled,
     threshold_low_stock |-> form.threshold,
     enabled_zero_stock |-> rules.zero_stock.enabled,
     threshold_zero_stock |-> rules.zero_stock.threshold,
     enabled_high_receivables |-> rules.high_receivables.enabled,
     threshold_high_receivables |-> rules.high_receivables.threshold,
     enabled_sales_drop |-> rules.sales_drop.enabled,
     threshold_pct_sales_drop |-> rules.sales_drop.threshold_percentage]

\* render_alert_settings with the button pressed in this run, if any
render_alert_settings(form, button) ==
    LET alerts == LoadAlerts(session_state)
        rules == DefaultAlertRules
        shown == Widgets(rules, form) @@ session_state
        saved == SavedRules(rules, shown)
    IN /\ called' = [op |-> "render_alert_settings"]
       /\ result' = NoDict
       /\ alert_rules' = IF button = "Save Alert Settings" THEN saved ELSE rules
       /\ page' = [view |-> "render_alert_settings",
                   saved |-> IF button = "Save Alert Settings" THEN saved ELSE page.saved]
       /\ session_state' = IF button = "Clear Resolved Alerts"
                           THEN SaveAlerts(shown, ClearResolved(alerts))
                           ELSE shown
       /\ UNCHANGED <<idle, now>>

\* check_business_alerts: a new manager runs the three checks
check_business_alerts(df, inventory_data, outstanding_data) ==
    LET alerts == LoadAlerts(session_state)
        rules == DefaultAlertRules
        inventory == check_inventory_alerts(alerts, rules, inventory_data, now)
        receivables == check_receivables_alerts(inventory, rules, outstanding_data, now)
        sales == check_sales_alerts(receivables, rules, df, now)
    IN /\ Len(sales) <= MaxAlerts
       /\ called' = [op |-> "check_business_alerts"]
       /\ result' = NoDict
       /\ alert_rules' = rules
       /\ session_state' = IF sales = alerts THEN session_state
                           ELSE SaveAlerts(session_state, sales)
       /\ UNCHANGED <<idle, page, now>>

NextAlerts ==
    \/ tick
    \/ add_alert(1)
    \/ \E a \in Range(LoadAlerts(session_state)) : acknowledge_alert(a.id)
    \/ \E alert_id \in {a.id : a \in Range(LoadAlerts(session_state))}
                         \cup {<<MaxClock + 1, 0>>} : resolve_alert(alert_id)
    \/ \E form \in Forms, button \in {"none", "Save Alert Settings", "Clear Resolved Alerts"} :
          render_alert_settings(form, button)
    \/ \E snapshot \in Snapshots :
          check_business_alerts(snapshot[1], snapshot[2], snapshot[3])

SpecAlerts == InitAlerts /\ [][NextAlerts]_vars


\* ------------------------------------------------------------------ src/auth.py
\* hashlib.sha256(x.encode()).hexdigest(): a digest is not the password, and
\* the passwords of the model have distinct digests
sha256(password) == <<"sha256", password>>

\* DEFAULT_USERS, lines 8-24
DEFAULT_USERS ==
    [admin   |-> [password |-> sha256("admin123"), role |-> "Administrator",
                  permissions |-> <<"all">>],
     manager |-> [password |-> sha256("manager123"), role |-> "Manager",
                  permissions |-> <<"view_reports", "export_data", "analytics">>],
     viewer  |-> [password |-> sha256("viewer123"), role |-> "Viewer",
                  permissions |-> <<"view_reports">>]]

\* a session before the first run of app.py
InitAuth ==
    /\ sales_data = EmptyFrame
    /\ sales_data0 = EmptyFrame
    /\ called = [op |-> "none"]
    /\ result = NoDict
    /\ raised = FALSE
    /\ scaler = [mean_ |-> <<>>, scale_ |-> <<>>]
    /\ threads = <<>>
    /\ sklearn = "any"
    /\ session_state = NoDict
    /\ page = [view |-> "none"]
    /\ alert_rules = NoDict
    /\ now = 0

\* initialize_session, lines 26-45: every key that is missing gets its
\* default; None is the string "None", the layout is named
initialize_session ==
    /\ session_state' =
          session_state @@ [authenticated    |-> FALSE,
                            username         |-> "None",
                            user_role        |-> "None",
                            permissions      |-> <<>>,
                            tally_server     |-> "http://localhost:9000",
                            company_name     |-> "None",
                            dashboard_layout |-> "default",
                            theme_mode       |-> "light",
                            alerts_enabled   |-> TRUE]
    /\ called' = [op |-> "initialize_session"]
    /\ result' = NoDict
    /\ UNCHANGED <<idle, page, alert_rules, now>>

\* authenticate_user with the session written before the server is asked
authenticate_userEager(username, password, tally_server) ==
    \E test_connection \in BOOLEAN, companies \in {<<>>, <<[name |-> "Acme"]>>} :
       LET known == /\ username # "" /\ password # ""
                    /\ username \in DOMAIN DEFAULT_USERS
                    /\ DEFAULT_USERS[username].password = sha256(password)
           company_name == IF companies # <<>> THEN companies[1].name
                           ELSE "Default Company"
           written == [authenticated |-> TRUE,
                       username      |-> username,
                       user_role     |-> DEFAULT_USERS[username].role,
                       permissions   |-> DEFAULT_USERS[username].permissions,
                       tally_server  |-> tally_server,
                       company_name  |-> company_name] @@ session_state
       IN /\ session_state' = IF known THEN written ELSE session_state
          /\ called' = [op |-> "authenticate_user", username |-> username,
                        password |-> password, tally_server |-> tally_server]
          /\ result' = [returned |-> known /\ test_connection]
          /\ page' = [view |-> "login", test_connection |-> test_connection]
          /\ UNCHANGED <<idle, alert_rules, now>>

\* authenticate_user, lines 47-78. The server's answers are the
\* environment's: test_connection() and get_company_list(); page keeps the
\* first for the login form
authenticate_user(username, password, tally_server) ==
    \E test_connection \in BOOLEAN, companies \in {<<>>, <<[name |-> "Acme"]>>} :
       LET known == /\ username # "" /\ password # ""
                    /\ username \in DOMAIN DEFAULT_USERS
                    /\ DEFAULT_USERS[username].password = sha256(password)
           returned == known /\ test_connection
           company_name == IF companies # <<>> THEN companies[1].name
                           ELSE "Default Company"
           written == [authenticated |-> TRUE,
                       username      |-> username,
                       user_role     |-> DEFAULT_USERS[username].role,
                       permissions   |-> DEFAULT_USERS[username].permissions,
                       tally_server  |-> tally_server,
                       company_name  |-> company_name] @@ session_state
       IN /\ session_state' = IF returned THEN written ELSE session_state
          /\ called' = [op |-> "authenticate_user", username |-> username,
                        password |-> password, tally_server |-> tally_server]
          /\ result' = [returned |-> returned]
          /\ page' = [view |-> "login", test_connection |-> test_connection]
          /\ UNCHANGED <<idle, alert_rules, now>>

\* check_permission, lines 80-86
check_permission(permission) ==
    LET user_permissions == Get(session_state, "permissions", <<>>)
        returned == IF ~Get(session_state, "authenticated", FALSE) THEN FALSE
                    ELSE \/ "all" \in Range(user_permissions)
                         \/ permission \in Range(user_permissions)
    IN /\ called' = [op |-> "check_permission", permission |-> permission]
       /\ result' = [returned |-> returned]
       /\ UNCHANGED <<idle, session_state, page, alert_rules, now>>

\* logout_user, lines 125-131
logout_user ==
    LET keys_to_clear == {"authenticated", "username", "user_role", "permissions",
                          "tally_server", "company_name", "dashboard_layout"}
    IN /\ session_state' = [k \in DOMAIN session_state \ keys_to_clear |-> session_state[k]]
       /\ called' = [op |-> "logout_user"]
       /\ result' = NoDict
       /\ UNCHANGED <<idle, page, alert_rules, now>>

\* the login form of app.py and the pages' permission checks
NextAuth ==
    \/ initialize_session
    \/ \E username \in {"", "admin", "manager", "viewer", "guest"},
          password \in {"", "admin123", "manager123", "viewer123"},
          tally_server \in {"http://localhost:9000", "http://tally:9000"} :
             authenticate_user(username, password, tally_server)
    \/ \E permission \in {"view_reports", "export_data", "analytics", "all", "manage_users"} :
          check_permission(permission)
    \/ logout_user

SpecAuth == InitAuth /\ [][NextAuth]_vars

\* ================================================================== claims
\* what a batch holds, read off the batch as the caller built it
DistinctDates(df) ==
    IF empty(df) \/ "date" \notin df.columns THEN {}
    ELSE {to_datetime(df.rows[i]["date"]).v : i \in 1..Len(df.rows)}

Counterparties(df) ==
    IF empty(df) \/ "party_name" \notin df.columns THEN {}
    ELSE {df.rows[i]["party_name"] : i \in 1..Len(df.rows)}

Entities(df) ==
    IF empty(df) \/ "stock_item" \notin df.columns THEN {}
    ELSE {df.rows[i]["stock_item"] : i \in 1..Len(df.rows)}

\* a batch of whole TransactionRecords: empty, or with every column the
\* engine reads from a record
WellFormed(df) ==
    empty(df) \/ {"date", "amount", "party_name", "voucher_number"} \subseteq df.columns

Failed == ~raised /\ DOMAIN result = {"error"}

ForecastOk == called.op = "sales_forecasting" /\ ~raised /\ "forecast_dates" \in DOMAIN result

SegmentationOk == called.op = "customer_segmentation" /\ ~raised /\ "rfm_data" \in DOMAIN result

TrendOk == called.op = "product_trend_analysis" /\ ~raised /\ "product_analysis" \in DOMAIN result

SeasonalOk == called.op = "seasonal_pattern_analysis" /\ ~raised /\ "monthly_patterns" \in DOMAIN result

RECURSIVE SumAmountField(_)
SumAmountField(rows) ==
    IF rows = <<>> THEN 0 ELSE Head(rows).amount + SumAmountField(Tail(rows))

\* C1: a forecast of a batch of whole records with at least 7 distinct
\* calendar dates and a horizon h > 0 succeeds and returns exactly h dates,
\* the first one the day after the last historical date and each next one
\* exactly one day after the previous one.
C1_ForecastDatesContiguous ==
    (/\ called.op = "sales_forecasting"
     /\ WellFormed(sales_data0)
     /\ Cardinality(DistinctDates(sales_data0)) >= 7
     /\ called.forecast_days > 0)
    => /\ ForecastOk
       /\ "error" \notin DOMAIN result
       /\ Len(result.forecast_dates) = called.forecast_days
       /\ result.forecast_dates[1].v = SetMax(DistinctDates(sales_data0)) + 1
       /\ \A i \in 1..(called.forecast_days - 1) :
             result.forecast_dates[i + 1].v = result.forecast_dates[i].v + 1

\* a forecast over the longest horizon of a batch whose records are not in
\* date order
C1_Witness ==
    /\ ForecastOk
    /\ WellFormed(sales_data0)
    /\ called.forecast_days = MaxHorizon
    /\ Len(result.forecast_dates) = MaxHorizon
    /\ \E i \in 1..(Len(sales_data0.rows) - 1) :
          to_datetime(sales_data0.rows[i]["date"]).v
              > to_datetime(sales_data0.rows[i + 1]["date"]).v

\* C2: in every successful forecast, for every forecast index i,
\* confidence_lower[i] <= forecast_values[i] <= confidence_upper[i].
C2_BandBracketsForecast ==
    ForecastOk =>
        \A i \in 1..Len(result.forecast_values) :
            /\ result.confidence_lower[i] <= result.forecast_values[i]
            /\ result.forecast_values[i] <= result.confidence_upper[i]

\* a successful forecast whose band has a positive width
C2_Witness ==
    /\ ForecastOk
    /\ result.confidence_lower[1] < result.forecast_values[1]
    /\ result.forecast_values[1] < result.confidence_upper[1]

InsufficientHistory ==
    {"Insufficient data for forecasting", "Need at least 7 days of data for forecasting"}

\* C3: a forecast of a batch with fewer than 7 distinct calendar dates (the
\* empty batch included) lets no exception escape and returns a failure with
\* no forecast payload; for a batch of whole records the failure is one of
\* the two insufficient-history messages.
C3_InsufficientHistory ==
    (called.op = "sales_forecasting" /\ Cardinality(DistinctDates(sales_data0)) < 7)
    => /\ Failed
       /\ WellFormed(sales_data0) => result.error \in InsufficientHistory

\* a batch of at least 7 records on fewer than 7 dates is refused
C3_Witness ==
    /\ called.op = "sales_forecasting"
    /\ WellFormed(sales_data0)
    /\ Len(sales_data0.rows) >= 7
    /\ Cardinality(DistinctDates(sales_data0)) < 7
    /\ Failed
    /\ result.error = "Need at least 7 days of data for forecasting"

InsufficientCustomers ==
    {"Insufficient customer data", "Need at least 3 customers for segmentation"}

\* C4: a segmentation of a batch of whole records with fewer than 3 distinct
\* counterparties (the empty batch included) lets no exception escape and
\* returns an insufficient-customers failure without RFM records; with 3 or
\* more distinct counterparties it does not fail on that precondition.
C4_InsufficientCustomers ==
    called.op = "customer_segmentation"
    => /\ ~raised
       /\ Cardinality(Counterparties(sales_data0)) < 3
            => /\ Failed
               /\ WellFormed(sales_data0) => result.error \in InsufficientCustomers
       /\ Cardinality(Counterparties(sales_data0)) >= 3
            => /\ "error" \in DOMAIN result => result.error \notin InsufficientCustomers
               /\ WellFormed(sales_data0) => SegmentationOk

\* a batch of at least 3 records of exactly 2 counterparties is refused
C4_Witness ==
    /\ called.op = "customer_segmentation"
    /\ WellFormed(sales_data0)
    /\ Len(sales_data0.rows) >= 3
    /\ Cardinality(Counterparties(sales_data0)) = 2
    /\ Failed
    /\ result.error = "Need at least 3 customers for segmentation"

RECURSIVE SumCounts(_, _)
SumCounts(stats, names) ==
    IF names = {} THEN 0
    ELSE LET nm == CHOOSE x \in names : TRUE
         IN stats[nm].customer + SumCounts(stats, names \ {nm})

\* C5: in every successful segmentation the member counts of segment_stats
\* sum to the number of distinct counterparties of the batch, and every
\* counterparty has exactly one RFM record, in a segment of segment_stats.
C5_SegmentCountsSum ==
    SegmentationOk =>
        /\ SumCounts(result.segment_stats, DOMAIN result.segment_stats)
              = Cardinality(Counterparties(sales_data0))
        /\ \A p \in Counterparties(sales_data0) :
              /\ Cardinality({j \in 1..Len(result.rfm_data) :
                                result.rfm_data[j].customer = p}) = 1
              /\ \A j \in 1..Len(result.rfm_data) :
                    result.rfm_data[j].customer = p
                        => result.rfm_data[j].segment_name \in DOMAIN result.segment_stats
        /\ \A j \in 1..Len(result.rfm_data) :
              result.rfm_data[j].customer \in Counterparties(sales_data0)

\* a segmentation with more counterparties than segments, one segment
\* holding several counterparties
C5_Witness ==
    /\ SegmentationOk
    /\ Len(result.rfm_data) > Cardinality(DOMAIN result.segment_stats)
    /\ \E nm \in DOMAIN result.segment_stats : result.segment_stats[nm].customer >= 2

Categories == {"Fast Mover", "High Value", "Frequent Seller", "Slow Mover"}

Bucket(cat) ==
    {result.product_analysis[j].product :
        j \in {j2 \in 1..Len(result.product_analysis) :
                 result.product_analysis[j2].category = cat}}

\* C6: in every successful product_trend_analysis each distinct entity of
\* the batch has exactly one record, with one of the four categories: the
\* four buckets are pairwise disjoint and their union is the entity set.
C6_CategoriesPartition ==
    TrendOk =>
        /\ \A p \in Entities(sales_data0) :
              Cardinality({j \in 1..Len(result.product_analysis) :
                             result.product_analysis[j].product = p}) = 1
        /\ \A j \in 1..Len(result.product_analysis) :
              result.product_analysis[j].category \in Categories
        /\ UNION {Bucket(cat) : cat \in Categories} = Entities(sales_data0)
        /\ \A c1, c2 \in Categories : c1 # c2 => Bucket(c1) \cap Bucket(c2) = {}
        /\ {r.product : r \in Range(result.fast_movers)} = Bucket("Fast Mover")
        /\ {r.product : r \in Range(result.slow_movers)} = Bucket("Slow Mover")

\* a classification with a non-empty Fast Mover and a non-empty Slow Mover
\* bucket
C6_Witness ==
    /\ TrendOk
    /\ Len(result.product_analysis) >= 3
    /\ Bucket("Fast Mover") # {}
    /\ Bucket("Slow Mover") # {}

SalesKeys == {"total_sales", "avg_transaction_value", "sales_count"}

InventoryKeys == {"total_inventory_value", "inventory_items", "low_stock_items"}

ReceivablesKeys == {"total_receivables", "overdue_customers"}

KeysIff(keys, df) ==
    IF empty(df) THEN keys \cap DOMAIN result = {} ELSE keys \subseteq DOMAIN result

\* C7: the map calculate_kpis returns holds the sales keys exactly when the
\* sales snapshot is non-empty, the inventory keys exactly when the
\* inventory snapshot is non-empty, the receivables keys exactly when the
\* outstanding snapshot is non-empty, and no other key.
C7_KpiKeysIffSnapshot ==
    (called.op = "calculate_kpis" /\ ~raised)
    => /\ KeysIff(SalesKeys, sales_data)
       /\ KeysIff(InventoryKeys, called.inventory_data)
       /\ KeysIff(ReceivablesKeys, called.outstanding_data)
       /\ DOMAIN result \subseteq SalesKeys \cup InventoryKeys \cup ReceivablesKeys

\* an empty sales snapshot with populated inventory and outstanding snapshots
C7_Witness ==
    /\ called.op = "calculate_kpis"
    /\ ~raised
    /\ empty(sales_data)
    /\ DOMAIN result = InventoryKeys \cup ReceivablesKeys

\* C8: in every successful seasonal_pattern_analysis the per-month totals,
\* the per-weekday totals and the per-quarter totals each sum to the sum of
\* the amounts of all records of the batch.
C8_SeasonalMassConserved ==
    SeasonalOk =>
        LET total == SumSeq(Column(sales_data0, "amount"))
        IN /\ SumAmountField(result.monthly_patterns) = total
           /\ SumAmountField(result.weekly_patterns) = total
           /\ SumAmountField(result.quarterly_patterns) = total

\* a summary over several months and quarters with fewer buckets than records
C8_Witness ==
    /\ SeasonalOk
    /\ Len(result.quarterly_patterns) >= 2
    /\ Len(result.monthly_patterns) >= 2
    /\ Len(result.monthly_patterns) < Len(sales_data0.rows)
    /\ Len(result.weekly_patterns) < Len(sales_data0.rows)

\* C9: every engine operation returns a result for every input, batches
\* lacking a column it reads included, and lets no exception escape.
C9_NoExceptionEscapes ==
    called.op # "none" => ~raised

\* C10: no engine operation modifies the caller's batch: it keeps the
\* columns and the field values it was built with.
C10_BatchUnmodified ==
    /\ sales_data.columns = sales_data0.columns
    /\ \A i \in 1..Len(sales_data0.rows) : \A c \in sales_data0.columns :
          sales_data.rows[i][c] = sales_data0.rows[i][c]

\* the results customer_segmentation returns for a batch when it runs alone
SegmentationAlone(df) ==
    IF empty(df) \/ "party_name" \notin df.columns
    THEN {Error("Insufficient customer data")}
    ELSE LET rfm == Rfm(Assign(df, "date", ToDatetimeDate))
         IN IF Len(rfm) < MinCustomers
            THEN {Error("Need at least 3 customers for segmentation")}
            ELSE {SegmentationResult(rfm, ScalerFit(RfmFeatures(rfm)), seeds) :
                     seeds \in Fit(random_state,
                                   Seedings(Len(rfm), Min2(MaxClusters, Len(rfm))))}

\* C11: of two customer_segmentation calls running concurrently on one
\* engine, each on a batch of its own, every call that has returned holds a
\* result it returns for its batch when it runs alone.
C11_ConcurrentAsAlone ==
    \A t \in DOMAIN threads :
        threads[t].pc = "done"
            => threads[t].result \in SegmentationAlone(threads[t].sales_data0)

\* C12: product_trend_analysis of a non-empty batch without the stock_item
\* column lets no exception escape and returns an outcome that is not an
\* error result: it does not carry the key 'error', by which the results
\* for an empty batch and for an internal failure are recognised.
C12_UnavailableNotError ==
    (/\ called.op = "product_trend_analysis"
     /\ ~empty(sales_data0)
     /\ "stock_item" \notin sales_data0.columns)
    => ~raised /\ "error" \notin DOMAIN result

\* the results sales_forecasting returns for a batch and a horizon on a
\* first call
ForecastAlone(df, forecast_days) ==
    IF empty(df) \/ "date" \notin df.columns
    THEN {Error("Insufficient data for forecasting")}
    ELSE IF "amount" \notin df.columns
    THEN {Error("Forecasting error: 'Column not found: amount'")}
    ELSE LET daily_sales == DailySales(Assign(df, "date", ToDatetimeDate))
         IN IF Len(daily_sales) < MinHistory
            THEN {Error("Need at least 7 days of data for forecasting")}
            ELSE IF forecast_days < 1
            THEN {Error("Forecasting error: Expected 2D array, got 1D array instead")}
            ELSE {ForecastResult(daily_sales, forecast_days, est) :
                     est \in Fit(random_state, Estimators)}

\* every forecast and every segmentation is the one of a first call on the
\* batch as the caller built it
AsFirstCall ==
    /\ called.op = "sales_forecasting"
         => ~raised /\ {result} = ForecastAlone(sales_data0, called.forecast_days)
    /\ (called.op = "customer_segmentation" /\ WellFormed(sales_data0))
         => ~raised /\ {result} = SegmentationAlone(sales_data0)

\* calling the same operation again with the same arguments
SameCallAgain ==
    (called.op \in {"sales_forecasting", "customer_segmentation"} /\ called' = called)
    => result' = result /\ raised' = raised

\* C13: with the seeds the engine passes, sales_forecasting and
\* customer_segmentation are functions of the batch and the horizon: a call
\* returns what a first call on the batch returns, whatever was called
\* before, and the same call made again returns the identical result, a
\* failed precondition included.
C13_Deterministic == []AsFirstCall /\ [][SameCallAgain]_vars

\* a forecast of a batch that a segmentation and a seasonal analysis have
\* used, and changed, before
C13_Witness ==
    /\ ForecastOk
    /\ scaler.mean_ # <<>>
    /\ "week_of_year" \in sales_data.columns

\* the width of the band a fitted estimator gives on a daily series, in
\* hundredths: 1.96 times the standard deviation of its training residuals
BandOf(est, daily) ==
    LET residuals == Tab([j \in 1..Len(daily) |->
                        100 * daily[j].amount - Predict(est, daily, daily[j])])
    IN (196 * StdDev(residuals)) \div 100

\* C14: in every successful forecast there is one width w >= 0 such that,
\* for every forecast index i, confidence_upper[i] - forecast_values[i] = w
\* and forecast_values[i] - confidence_lower[i] = w; w is 1.96 times the
\* standard deviation of the residuals, on the historical series, of the
\* estimator that made the point forecasts.
C14_BandSymmetricConstant ==
    ForecastOk =>
        LET w == result.confidence_upper[1] - result.forecast_values[1]
        IN /\ w >= 0
           /\ \A i \in 1..Len(result.forecast_values) :
                 /\ result.confidence_upper[i] - result.forecast_values[i] = w
                 /\ result.forecast_values[i] - result.confidence_lower[i] = w
           /\ \E est \in Estimators :
                 /\ w = BandOf(est, result.historical_data)
                 /\ \A i \in 1..Len(result.forecast_values) :
                       result.forecast_values[i]
                           = Predict(est, result.historical_data,
                                     Features(result.forecast_dates[i],
                                              result.historical_data[1].date))

\* a forecast over two days with different point forecasts and a band of
\* positive width
C14_Witness ==
    /\ ForecastOk
    /\ Len(result.forecast_values) >= 2
    /\ result.forecast_values[1] # result.forecast_values[2]
    /\ result.confidence_upper[1] > result.forecast_values[1]

\* the total amount and the number of the records of an entity in the batch
\* as the caller built it
EntityTotal(p) == SumWhere(sales_data0.rows, "stock_item", p, "amount")

EntityCount(p) == CountWhere(sales_data0.rows, "stock_item", p)

\* C15: in every successful product_trend_analysis, with vT and fT the 70th
\* percentiles of the velocities and of the transaction counts of the
\* entities of the batch, and velocity = total amount / transaction count,
\* an entity is Fast Mover iff velocity >= vT and frequency >= fT, High
\* Value iff velocity >= vT and frequency < fT, Frequent Seller iff
\* velocity < vT and frequency >= fT, Slow Mover iff velocity < vT and
\* frequency < fT.
C15_CategoryByThresholds ==
    TrendOk =>
        LET pa == result.product_analysis
            vT == Quantile70(Tab([j \in 1..Len(pa) |->
                                    Rat(EntityTotal(pa[j].product), EntityCount(pa[j].product))]))
            fT == Quantile70(Tab([j \in 1..Len(pa) |-> Rat(EntityCount(pa[j].product), 1)]))
        IN \A j \in 1..Len(pa) :
              LET v == Rat(EntityTotal(pa[j].product), EntityCount(pa[j].product))
                  f == Rat(EntityCount(pa[j].product), 1)
                  fastV == RatLeq(vT, v)
                  fastF == RatLeq(fT, f)
              IN /\ pa[j].sales_velocity = v
                 /\ pa[j].sales_frequency = EntityCount(pa[j].product)
                 /\ pa[j].category = "Fast Mover" <=> (fastV /\ fastF)
                 /\ pa[j].category = "High Value" <=> (fastV /\ ~fastF)
                 /\ pa[j].category = "Frequent Seller" <=> (~fastV /\ fastF)
                 /\ pa[j].category = "Slow Mover" <=> (~fastV /\ ~fastF)

\* a classification of three entities with a High Value or a Frequent
\* Seller entity beside a Slow Mover
C15_Witness ==
    /\ TrendOk
    /\ Len(result.product_analysis) >= 3
    /\ Bucket("High Value") \cup Bucket("Frequent Seller") # {}
    /\ Bucket("Slow Mover") # {}

\* the thresholds of the batch the caller holds, from its records alone
BatchThresholds ==
    LET ps == SortedSeq(Entities(sales_data0))
    IN [velocity |-> Quantile70(Tab([j \in 1..Len(ps) |->
                                       Rat(EntityTotal(ps[j]), EntityCount(ps[j]))])),
        frequency |-> Quantile70(Tab([j \in 1..Len(ps) |-> Rat(EntityCount(ps[j]), 1)]))]

\* C16: whatever batches the engine has classified before, a
\* product_trend_analysis of batch B classifies the entities of B with the
\* 70th-percentile thresholds of B alone, as a first call on B does.
C16_ThresholdsOfCurrentBatch ==
    TrendOk =>
        LET pa == result.product_analysis
        IN /\ {pa[j].product : j \in 1..Len(pa)} = Entities(sales_data0)
           /\ Thresholds(pa) = BatchThresholds
           /\ \A j \in 1..Len(pa) :
                 pa[j].category = categorize_product(pa[j], BatchThresholds.velocity,
                                                     BatchThresholds.frequency)

\* the caller holds a classification of one batch and has fetched a batch
\* whose thresholds are different and would classify an entity differently
C16_Witness ==
    /\ called.op = "none"
    /\ "product_analysis" \in DOMAIN result
    /\ Entities(sales_data0) # {}
    /\ Thresholds(result.product_analysis) # BatchThresholds
    /\ Categorized(ProductSales(sales_data0)) # CategorizedCached(ProductSales(sales_data0))

\* C17: a successful segmentation of a batch with n distinct counterparties
\* has n >= 3, exactly min(4, n) cluster centers and at most min(4, n)
\* distinct segments.
C17_ClusterCount ==
    SegmentationOk =>
        LET n == Cardinality(Counterparties(sales_data0))
            k == IF n < 4 THEN n ELSE 4
        IN /\ n >= 3
           /\ Len(result.cluster_centers) = k
           /\ Cardinality({result.rfm_data[j].segment : j \in 1..Len(result.rfm_data)}) <= k
           /\ Cardinality(DOMAIN result.segment_stats) <= k
           /\ \A j \in 1..Len(result.rfm_data) : result.rfm_data[j].segment \in 0..(k - 1)

\* a batch with more than four counterparties, segmented with four centers
C17_Witness ==
    /\ SegmentationOk
    /\ Cardinality(Counterparties(sales_data0)) > 4
    /\ Len(result.cluster_centers) = 4

\* C18: in every successful segmentation the label of a counterparty is the
\* name at the position of its cluster id in the list Champions, Loyal
\* Customers, Potential Loyalists, At Risk (0 first): two counterparties of
\* one cluster carry one label whatever their RFM values, and no label is
\* the fallback 'Segment x'.
C18_LabelByClusterId ==
    SegmentationOk =>
        \A j \in 1..Len(result.rfm_data) :
            LET r == result.rfm_data[j]
            IN /\ r.segment \in 0..3
               /\ r.segment = 0 => r.segment_name = "Champions"
               /\ r.segment = 1 => r.segment_name = "Loyal Customers"
               /\ r.segment = 2 => r.segment_name = "Potential Loyalists"
               /\ r.segment = 3 => r.segment_name = "At Risk"

\* a segmentation in which all four labels occur and the Champions do not
\* hold the largest monetary value
C18_Witness ==
    /\ SegmentationOk
    /\ {result.rfm_data[j].segment_name : j \in 1..Len(result.rfm_data)}
          = Range(segment_labels)
    /\ \E i, j \in 1..Len(result.rfm_data) :
          /\ result.rfm_data[i].segment_name = "Champions"
          /\ result.rfm_data[j].segment_name = "At Risk"
          /\ result.rfm_data[j].monetary > result.rfm_data[i].monetary

\* the records of the batch as built, by position, and sums over them
Records == 1..Len(sales_data0.rows)

DateOfRecord(i) == to_datetime(sales_data0.rows[i]["date"])

RECURSIVE AmountOver(_)
AmountOver(I) ==
    IF I = {} THEN 0
    ELSE LET i == CHOOSE x \in I : TRUE
         IN sales_data0.rows[i]["amount"] + AmountOver(I \ {i})

MonthTotal(m) == AmountOver({i \in Records : month(DateOfRecord(i)) = m})

WeekdayTotal(d) == AmountOver({i \in Records : dayofweek(DateOfRecord(i)) = d})

MonthsPresent == {month(DateOfRecord(i)) : i \in Records}

WeekdaysPresent == {dayofweek(DateOfRecord(i)) : i \in Records}

\* C19: in every successful seasonal_pattern_analysis the peak month is a
\* month of the batch whose total is >= the total of every month of the
\* batch, the lowest-numbered one when several months tie, and the peak day
\* is a weekday of the batch whose total is >= the total of every weekday
\* of the batch, the earliest one from Monday when several tie.
C19_PeakIsEarliestMaximum ==
    SeasonalOk =>
        /\ \E m \in MonthsPresent :
              /\ result.peak_month = month_names[m]
              /\ \A m2 \in MonthsPresent : MonthTotal(m2) <= MonthTotal(m)
              /\ \A m2 \in MonthsPresent : MonthTotal(m2) = MonthTotal(m) => m <= m2
        /\ \E d \in WeekdaysPresent :
              /\ result.peak_day = day_names[d + 1]
              /\ \A d2 \in WeekdaysPresent : WeekdayTotal(d2) <= WeekdayTotal(d)
              /\ \A d2 \in WeekdaysPresent : WeekdayTotal(d2) = WeekdayTotal(d) => d <= d2

\* a summary in which two months tie for the largest total, and two
\* weekdays too
C19_Witness ==
    /\ SeasonalOk
    /\ \E m1, m2 \in MonthsPresent :
          /\ m1 < m2
          /\ MonthTotal(m1) = MonthTotal(m2)
          /\ \A m3 \in MonthsPresent : MonthTotal(m3) <= MonthTotal(m1)
    /\ \E d1, d2 \in WeekdaysPresent :
          /\ d1 < d2
          /\ WeekdayTotal(d1) = WeekdayTotal(d2)
          /\ \A d3 \in WeekdaysPresent : WeekdayTotal(d3) <= WeekdayTotal(d1)

\* C20: the daily series of every successful forecast has exactly one entry
\* for each distinct calendar date of the batch and no other, in strictly
\* increasing date order whatever the order of the records; the total of an
\* entry is the sum of the amounts of the records of its date, and the
\* totals sum to the sum of the amounts of the batch.
C20_DailySeries ==
    ForecastOk =>
        LET daily == result.historical_data
        IN /\ {daily[j].date.v : j \in 1..Len(daily)} = DistinctDates(sales_data0)
           /\ Len(daily) = Cardinality(DistinctDates(sales_data0))
           /\ \A j \in 1..(Len(daily) - 1) : daily[j].date.v < daily[j + 1].date.v
           /\ \A j \in 1..Len(daily) :
                 daily[j].amount = AmountOver({i \in Records : DateOfRecord(i) = daily[j].date})
           /\ SumAmountField(daily) = AmountOver(Records)

\* a forecast of a batch whose records are not in date order and two of
\* which fall on one date
C20_Witness ==
    /\ ForecastOk
    /\ Len(result.historical_data) < Len(sales_data0.rows)
    /\ \E i \in 1..(Len(sales_data0.rows) - 1) :
          DateOfRecord(i).v > DateOfRecord(i + 1).v

\* the feature vector the rule of lines 37-40 gives a date: the days since
\* the earliest date, the weekday (Monday 0), the month, the weekend flag
RuleHolds(f, date, first) ==
    /\ f.day_num = date.v - first.v
    /\ f.day_of_week = (date.v + 3) % 7
    /\ f.day_of_week \in 0..6
    /\ f.month = CivilFromDays(date.v).month
    /\ f.month \in 1..12
    /\ f.is_weekend \in {0, 1}
    /\ f.is_weekend = 1 <=> f.day_of_week \in {5, 6}

\* C21: in every successful forecast the feature columns of the historical
\* series and the feature vectors of the forecast days follow one rule:
\* day_num is the number of days since the earliest date of the batch (0 on
\* the earliest date, the last historical offset plus i on the i-th forecast
\* day), day_of_week is in 0..6, month is in 1..12, and is_weekend is 1
\* exactly when day_of_week is 5 or 6; the point forecasts are the
\* estimator's predictions on those forecast vectors.
C21_FeatureRule ==
    ForecastOk =>
        LET hist == result.historical_data
            n == Len(hist)
            first == Timestamp(SetMin(DistinctDates(sales_data0)))
            future == Tab([i \in 1..Len(result.forecast_dates) |->
                          Features(result.forecast_dates[i], hist[1].date)])
        IN /\ hist[1].date = first
           /\ hist[1].day_num = 0
           /\ \A j \in 1..n : RuleHolds(hist[j], hist[j].date, first)
           /\ \A i \in DOMAIN future :
                 /\ RuleHolds(future[i], result.forecast_dates[i], first)
                 /\ future[i].day_num = hist[n].day_num + i
           /\ \E est \in Estimators :
                 \A i \in DOMAIN future :
                    result.forecast_values[i] = Predict(est, hist, future[i])

\* a forecast whose history holds a Saturday and a weekday, in two months,
\* and whose forecast days are a Friday and then a Saturday
C21_Witness ==
    /\ ForecastOk
    /\ \E j, k \in 1..Len(result.historical_data) :
          /\ result.historical_data[j].day_of_week = 5
          /\ result.historical_data[k].is_weekend = 0
          /\ result.historical_data[j].month # result.historical_data[k].month
    /\ Len(result.forecast_dates) >= 2
    /\ dayofweek(result.forecast_dates[1]) = 4
    /\ dayofweek(result.forecast_dates[2]) = 5

\* the records of a counterparty in the batch as the caller built it
RecordsOf(c) == {i \in Records : sales_data0.rows[i]["party_name"] = c}

LatestOf(I) == SetMax({DateOfRecord(i).v : i \in I})

RECURSIVE SumMonetary(_)
SumMonetary(rfm) ==
    IF rfm = <<>> THEN 0 ELSE Head(rfm).monetary + SumMonetary(Tail(rfm))

\* C22: a successful segmentation holds exactly one RFM record per distinct
\* counterparty of the batch, with recency the number of days from that
\* counterparty's latest record to the latest date of the whole batch,
\* frequency the number of distinct transaction ids of that counterparty,
\* and monetary the sum of that counterparty's amounts; the monetary values
\* sum to the total amount of the batch.
C22_RfmRecords ==
    SegmentationOk =>
        LET rfm == result.rfm_data
        IN /\ Len(rfm) = Cardinality(Counterparties(sales_data0))
           /\ {rfm[j].customer : j \in 1..Len(rfm)} = Counterparties(sales_data0)
           /\ \A j \in 1..Len(rfm) :
                 LET I == RecordsOf(rfm[j].customer)
                 IN /\ rfm[j].recency = LatestOf(Records) - LatestOf(I)
                    /\ rfm[j].frequency
                         = Cardinality({sales_data0.rows[i]["voucher_number"] : i \in I})
                    /\ rfm[j].monetary = AmountOver(I)
           /\ SumMonetary(rfm) = AmountOver(Records)

\* a segmentation with a counterparty of two records under one transaction
\* id and one of two records under two ids, and a counterparty whose latest
\* record is older than the latest of the batch
C22_Witness ==
    /\ SegmentationOk
    /\ \E j, k \in 1..Len(result.rfm_data) :
          /\ Cardinality(RecordsOf(result.rfm_data[j].customer)) = 2
          /\ result.rfm_data[j].frequency = 1
          /\ Cardinality(RecordsOf(result.rfm_data[k].customer)) = 2
          /\ result.rfm_data[k].frequency = 2
          /\ result.rfm_data[k].recency > 0

\* C26: in every successful segmentation every counterparty's recency is
\* >= 0 and at least one counterparty has recency exactly 0, namely every
\* counterparty that owns a record on the latest date of the batch.
C26_RecencyNonNegative ==
    SegmentationOk =>
        LET rfm == result.rfm_data
        IN /\ \A j \in 1..Len(rfm) : rfm[j].recency >= 0
           /\ \E j \in 1..Len(rfm) : rfm[j].recency = 0
           /\ \A j \in 1..Len(rfm) :
                 rfm[j].recency = 0
                 <=> \E i \in RecordsOf(rfm[j].customer) :
                        DateOfRecord(i).v = LatestOf(Records)

\* a segmentation where the owner of the latest record also has an older
\* record, and every other counterparty has a positive recency
C26_Witness ==
    /\ SegmentationOk
    /\ \E j \in 1..Len(result.rfm_data) :
          /\ result.rfm_data[j].recency = 0
          /\ \E i \in RecordsOf(result.rfm_data[j].customer) :
                DateOfRecord(i).v < LatestOf(Records)
          /\ \A k \in 1..Len(result.rfm_data) :
                k # j => result.rfm_data[k].recency > 0

\* C25: in every successful product_trend_analysis at least one entity has
\* a velocity >= the velocity threshold and at least one entity has a
\* frequency >= the frequency threshold, so not every entity is a Slow
\* Mover; the entity of a batch with a single entity is a Fast Mover.
C25_NotAllSlow ==
    TrendOk =>
        LET pa == result.product_analysis
            th == BatchThresholds
        IN /\ \E j \in 1..Len(pa) :
                 /\ RatLeq(th.velocity, Rat(EntityTotal(pa[j].product),
                                            EntityCount(pa[j].product)))
                 /\ pa[j].category \in {"Fast Mover", "High Value"}
           /\ \E j \in 1..Len(pa) :
                 /\ RatLeq(th.frequency, Rat(EntityCount(pa[j].product), 1))
                 /\ pa[j].category \in {"Fast Mover", "Frequent Seller"}
           /\ Bucket("Slow Mover") # {pa[j].product : j \in 1..Len(pa)}
           /\ Len(pa) = 1 => pa[1].category = "Fast Mover"

\* a classification of a batch with a single entity
C25_Witness ==
    /\ TrendOk
    /\ Len(result.product_analysis) = 1
    /\ Cardinality(Entities(sales_data0)) = 1
    /\ result.fast_movers # <<>>

\* the payload keys of each operation (lines 71-78, 133-137, 189-194, 222-228)
Payload(op) ==
    CASE op = "sales_forecasting" ->
            {"forecast_dates", "forecast_values", "confidence_upper",
             "confidence_lower", "historical_data", "model_accuracy"}
      [] op = "customer_segmentation" -> {"rfm_data", "segment_stats", "cluster_centers"}
      [] op = "product_trend_analysis" ->
            {"product_analysis", "monthly_trends", "fast_movers", "slow_movers"}
      [] op = "seasonal_pattern_analysis" ->
            {"monthly_patterns", "weekly_patterns", "quarterly_patterns",
             "peak_month", "peak_day"}

Flag(ss) == Get(ss, "generate_forecast", FALSE)

Held == LoadAlerts(session_state)

\* a step of check_business_alerts
CheckStep == called'.op = "check_business_alerts" /\ now' = now

\* the number of Low Stock alerts the session holds
LowStockAlerts(ss) ==
    Cardinality({i \in 1..Len(LoadAlerts(ss)) : LoadAlerts(ss)[i].title = "Low Stock Alert"})

\* C23: once 'Save Alert Settings' has stored the rules of the form, every
\* later check_business_alerts run evaluates the rules with the saved
\* values, and raises no new Low Stock alert when the low stock rule was
\* saved as disabled.
C23_SavedRulesApply ==
    [][(CheckStep /\ page.saved # NoDict)
       => /\ alert_rules' = page.saved
          /\ ~page.saved.low_stock.enabled
             => LowStockAlerts(session_state') <= LowStockAlerts(session_state)]_vars

\* C28: no two alerts the AlertManager holds have the same id.
C28_IdsUnique ==
    \A i, j \in 1..Len(Held) : i # j => Held[i].id # Held[j].id

\* the condition an alert stands for: its title, and its item if it has one
Condition(alert) ==
    <<alert.title,
      IF "item_name" \in DOMAIN alert.data THEN alert.data["item_name"] ELSE 0>>

Checked == {"Low Stock Alert", "Zero Stock Critical", "High Receivables Alert",
            "Sales Drop Alert"}

\* the unresolved alerts among the first n of a list that stand for a condition
Unresolved(alerts, n, condition) ==
    {i \in 1..n : ~alerts[i].resolved /\ Condition(alerts[i]) = condition}

\* C29: the session never holds two unresolved Low Stock alerts, or two
\* unresolved Zero Stock alerts, of one item, nor two unresolved High
\* Receivables or two unresolved Sales Drop alerts; and a check appends an
\* alert for a condition only when no unresolved alert for that condition
\* is held, the ones it appended before in the same run included.
C29_NoDuplicateAlerts ==
    /\ [](\A i \in 1..Len(Held) :
             Held[i].title \in Checked
             => Cardinality(Unresolved(Held, Len(Held), Condition(Held[i]))) <= 1)
    /\ [][CheckStep
          => LET before == LoadAlerts(session_state)
                 after == LoadAlerts(session_state')
             IN /\ Len(after) >= Len(before)
                /\ SubSeq(after, 1, Len(before)) = before
                /\ \A k \in Len(before) + 1..Len(after) :
                      /\ after[k].title \in Checked
                      /\ ~after[k].resolved
                      /\ Unresolved(after, k - 1, Condition(after[k])) = {}]_vars

\* after a check: a resolved Low Stock alert of an item, and behind it the
\* unresolved one a later check raised for the same item
C29_Witness ==
    /\ called.op = "check_business_alerts"
    /\ Len(Held) = 2
    /\ Held[1].title = "Low Stock Alert" /\ Held[1].resolved
    /\ Held[2].title = "Low Stock Alert" /\ ~Held[2].resolved
    /\ Held[1].data = Held[2].data

\* the session is logged in
Authenticated(ss) == "authenticated" \in DOMAIN ss /\ ss["authenticated"]

\* the session's permission list holds p or "all"
Permits(ss, p) ==
    /\ "permissions" \in DOMAIN ss
    /\ \E i \in 1..Len(ss["permissions"]) : ss["permissions"][i] \in {p, "all"}

\* the credentials name a user of DEFAULT_USERS with that user's password
GoodCredentials(c) ==
    \/ c.username = "admin" /\ c.password = "admin123"
    \/ c.username = "manager" /\ c.password = "manager123"
    \/ c.username = "viewer" /\ c.password = "viewer123"

\* C30: check_permission(p) returns true only if the session is
\* authenticated and its permission list holds p or "all"; an
\* authenticate_user that fails (empty or wrong credentials, or a server
\* that does not answer) returns false and leaves every session variable as
\* it was; logout_user leaves the session not authenticated, and a session
\* that is not authenticated becomes authenticated only by an
\* authenticate_user that returns true, so every check_permission in between
\* returns false.
C30_PermissionOnlyWhenLoggedIn ==
    /\ [](called.op = "check_permission" /\ result.returned
             => Authenticated(session_state)
                /\ Permits(session_state, called.permission))
    /\ [][/\ (called'.op = "authenticate_user"
              /\ (~GoodCredentials(called') \/ ~page'.test_connection))
                => ~result'.returned /\ session_state' = session_state
          /\ called'.op = "logout_user" => ~Authenticated(session_state')
          /\ (~Authenticated(session_state) /\ Authenticated(session_state'))
                => called'.op = "authenticate_user" /\ result'.returned]_vars

\* a permission check refused after a logout: only logout_user removes
\* 'authenticated' and leaves 'theme_mode'; the server answered the last
\* login
C30_Witness ==
    /\ called.op = "check_permission" /\ called.permission = "view_reports"
    /\ ~result.returned
    /\ "authenticated" \notin DOMAIN session_state
    /\ "theme_mode" \in DOMAIN session_state
    /\ page.view = "login" /\ page.test_connection
====
